---- MODULE Spec2Model ----
(***************************************************************************)
(* A model of convert_to_iceberg.py: the PathHandler string operations,    *)
(* the storage adapter of IcebergConverter over a file system given as a   *)
(* listing-ordered sequence of entries, the layout probing of              *)
(* process_docket, the three flatten_* functions, the table writer         *)
(* save_to_parquet / save_docket_dataset and the streaming driver          *)
(* convert_all / main.                                                     *)
(*                                                                         *)
(* Paths and names are strings, handled character by character as the      *)
(* Python code handles them.  Parsed JSON is a tagged value.               *)
(***************************************************************************)
EXTENDS Integers, Sequences, FiniteSets, TLC

(***************************************************************************)
(* Python str methods used by the program.                                 *)
(***************************************************************************)
startswith(s, p) == Len(s) >= Len(p) /\ SubSeq(s, 1, Len(p)) = p

endswith(s, p) == Len(s) >= Len(p) /\ SubSeq(s, Len(s) - Len(p) + 1, Len(s)) = p

RECURSIVE rstrip(_, _)
rstrip(s, c) ==
    IF Len(s) > 0 /\ SubSeq(s, Len(s), Len(s)) = c
    THEN rstrip(SubSeq(s, 1, Len(s) - 1), c)
    ELSE s

RECURSIVE lstrip(_, _)
lstrip(s, c) ==
    IF Len(s) > 0 /\ Head(s) = c THEN lstrip(Tail(s), c) ELSE s

\* Index of the first occurrence of the character c in s, 0 when there is none.
find(s, c) ==
    LET hits == {i \in 1..Len(s) : SubSeq(s, i, i) = c}
    IN  IF hits = {} THEN 0 ELSE CHOOSE i \in hits : \A j \in hits : i <= j

\* Index of the last occurrence of the character c in s, 0 when there is none.
rfind(s, c) ==
    LET hits == {i \in 1..Len(s) : SubSeq(s, i, i) = c}
    IN  IF hits = {} THEN 0 ELSE CHOOSE i \in hits : \A j \in hits : i >= j

\* c in s
contains(s, c) == find(s, c) # 0

\* s.split(c)[0]
split_first(s, c) == IF contains(s, c) THEN SubSeq(s, 1, find(s, c) - 1) ELSE s

\* s.split(c)[-1]
split_last(s, c) == SubSeq(s, rfind(s, c) + 1, Len(s))

\* '/'.join(s.split('/')[1:]) : what follows the first '/'
after_first(s, c) == SubSeq(s, find(s, c) + 1, Len(s))

\* '/'.join(s.split('/')[:-1]) : what precedes the last '/'
before_last(s, c) == SubSeq(s, 1, rfind(s, c) - 1)

(***************************************************************************)
(* fnmatch.fnmatch on POSIX, for patterns made of literals, '*' and '?'.   *)
(***************************************************************************)
RECURSIVE fnmatch(_, _)
fnmatch(name, pat) ==
    IF pat = "" THEN name = ""
    ELSE IF Head(pat) = "*"
         THEN fnmatch(name, Tail(pat)) \/ (name # "" /\ fnmatch(Tail(name), pat))
    ELSE IF Head(pat) = "?"
         THEN name # "" /\ fnmatch(Tail(name), Tail(pat))
    ELSE name # "" /\ Head(name) = Head(pat) /\ fnmatch(Tail(name), Tail(pat))

(***************************************************************************)
(* re.match(regex, s) for the regexes glob_files builds: literals, '.'     *)
(* and '.*'.  re.match anchors at the start only.                          *)
(***************************************************************************)
RECURSIVE re_match(_, _)
re_match(regex, s) ==
    IF regex = "" THEN TRUE
    ELSE IF Len(regex) >= 2 /\ SubSeq(regex, 1, 2) = ".*"
         THEN re_match(SubSeq(regex, 3, Len(regex)), s)
              \/ (s # "" /\ re_match(regex, Tail(s)))
    ELSE IF Head(regex) = "."
         THEN s # "" /\ re_match(Tail(regex), Tail(s))
    ELSE s # "" /\ Head(s) = Head(regex) /\ re_match(Tail(regex), Tail(s))

\* pattern.replace('*', '.*')
RECURSIVE replace_star(_)
replace_star(pattern) ==
    IF pattern = "" THEN ""
    ELSE IF Head(pattern) = "*" THEN ".*" \o replace_star(Tail(pattern))
    ELSE Head(pattern) \o replace_star(Tail(pattern))

(***************************************************************************)
(* pathlib on POSIX: str(Path(s)) collapses repeated '/', drops a trailing *)
(* '/', and renders the empty path as '.'.                                 *)
(***************************************************************************)
\* s without its character i + 1
drop_after(s, i) == SubSeq(s, 1, i) \o SubSeq(s, i + 2, Len(s))

RECURSIVE collapse(_)
collapse(s) ==
    IF \A i \in 1..(Len(s) - 1) : SubSeq(s, i, i + 1) # "//" THEN s
    ELSE collapse(drop_after(s, CHOOSE i \in 1..(Len(s) - 1) : SubSeq(s, i, i + 1) = "//"))

PathStr(s) ==
    LET c == collapse(s)
    IN  IF c = "" THEN "."
        ELSE IF c = "/" THEN "/"
        ELSE rstrip(c, "/")

\* Path(s).name
PathName(s) ==
    LET p == PathStr(s)
    IN  IF p = "/" \/ p = "." THEN "" ELSE split_last(p, "/")

\* str(Path(s).parent)
PathParent(s) ==
    LET p == PathStr(s)
    IN  IF ~contains(p, "/") THEN "."
        ELSE IF rfind(p, "/") = 1 THEN "/"
        ELSE before_last(p, "/")

\* str(Path(base).joinpath(*parts))
RECURSIVE PathJoin(_, _)
PathJoin(base, parts) ==
    IF parts = <<>> THEN PathStr(base)
    ELSE LET b == PathStr(base)
             p == Head(parts)
             j == IF startswith(p, "/") THEN p
                  ELSE IF p = "" THEN b
                  ELSE IF b = "." THEN p
                  ELSE IF b = "/" THEN "/" \o p
                  ELSE b \o "/" \o p
         IN  PathJoin(j, Tail(parts))

(***************************************************************************)
(* class PathHandler                                                       *)
(***************************************************************************)
is_s3_path(path) == startswith(path, "s3://")

parse_s3_path(s3_path) ==
    LET path_without_prefix == SubSeq(s3_path, 6, Len(s3_path))
    IN  IF contains(path_without_prefix, "/")
        THEN [bucket |-> split_first(path_without_prefix, "/"),
              key    |-> after_first(path_without_prefix, "/")]
        ELSE [bucket |-> path_without_prefix, key |-> ""]

join_s3_path(bucket, key) ==
    IF key # "" THEN "s3://" \o bucket \o "/" \o key ELSE "s3://" \o bucket

get_parent_path(path) ==
    IF is_s3_path(path)
    THEN LET bk == parse_s3_path(path)
         IN  IF contains(bk.key, "/")
             THEN join_s3_path(bk.bucket, before_last(bk.key, "/"))
             ELSE "s3://" \o bk.bucket
    ELSE PathParent(path)

get_name(path) ==
    IF is_s3_path(path)
    THEN LET bk == parse_s3_path(path)
         IN  IF bk.key # "" THEN split_last(bk.key, "/") ELSE bk.bucket
    ELSE PathName(path)

(***************************************************************************)
(* IcebergConverter.join_paths                                             *)
(***************************************************************************)
RECURSIVE s3_append(_, _)
s3_append(result, parts) ==
    IF parts = <<>> THEN result
    ELSE s3_append(result \o "/" \o lstrip(Head(parts), "/"), Tail(parts))

\* Variant: pathlib joins S3 locations as well.
join_paths_pathlib(base, parts) == PathJoin(base, parts)

join_paths(base, parts) ==
    IF is_s3_path(base)
    THEN s3_append(rstrip(base, "/"), parts)
    ELSE PathJoin(base, parts)

(***************************************************************************)
(* Parsed JSON (Python values): tagged records.  A Python dict is an "obj" *)
(* whose v is a function from keys to values; None is JNull.               *)
(***************************************************************************)
JNull == [t |-> "null"]
JStr(s) == [t |-> "str", v |-> s]
JNum(n) == [t |-> "num", v |-> n]
JBool(b) == [t |-> "bool", v |-> b]
JList(q) == [t |-> "list", v |-> q]
JObj(f) == [t |-> "obj", v |-> f]
EmptyDict == JObj(<<>>)
EmptyList == JList(<<>>)

\* Python truthiness: `if value:`
truthy(j) ==
    CASE j.t = "null" -> FALSE
      [] j.t = "str"  -> j.v # ""
      [] j.t = "num"  -> j.v # 0
      [] j.t = "bool" -> j.v
      [] j.t = "list" -> Len(j.v) > 0
      [] j.t = "obj"  -> DOMAIN j.v # {}

\* d.get(k, default) on a dict d
dict_get(d, k, default) == IF k \in DOMAIN d.v THEN d.v[k] ELSE default

\* len(x) is defined on lists, strings and dicts; it raises TypeError otherwise
has_len(j) == j.t \in {"list", "str", "obj"}
py_len(j) == IF j.t = "obj" THEN Cardinality(DOMAIN j.v) ELSE Len(j.v)

\* The outcome of a call that may raise: the value it returns, or the raise.
Return(row) == [raised |-> FALSE, row |-> row]
Raise == [raised |-> TRUE, row |-> <<>>]

(***************************************************************************)
(* flatten_docket_data, flatten_document_data, flatten_comment_data.       *)
(* A .get / .items on a value that is no dict raises AttributeError, a     *)
(* len of a value without length raises TypeError: both are Raise.         *)
(***************************************************************************)
\* the dict literal {"id": ..., "type": ..., "link": ...}
flat_head(data, links) ==
    [id   |-> dict_get(data, "id", JNull),
     type |-> dict_get(data, "type", JNull),
     link |-> dict_get(links, "self", JNull)]

\* for key, value in attributes.items(): if value is not None: flattened[key] = value
flat_attributes(attributes) ==
    [key \in {k \in DOMAIN attributes.v : attributes.v[k] # JNull} |-> attributes.v[key]]

\* the relationships that yield a count column
counted(relationships) ==
    {r \in DOMAIN relationships.v :
        relationships.v[r].t = "obj" /\ "data" \in DOMAIN relationships.v[r].v}

\* for rel_name, rel_data in relationships.items(): flattened[f"{rel_name}_count"] = len(...)
flat_counts(relationships) ==
    LET R == counted(relationships)
    IN  [c \in {r \o "_count" : r \in R} |->
            JNum(py_len(relationships.v[CHOOSE r \in R : r \o "_count" = c].v["data"]))]

flatten_docket_data(json_data) ==
    IF json_data.t # "obj" THEN Raise
    ELSE LET data == dict_get(json_data, "data", EmptyDict)
         IN  IF data.t # "obj" THEN Raise
             ELSE LET links == dict_get(data, "links", EmptyDict)
                      attributes == dict_get(data, "attributes", EmptyDict)
                      relationships == dict_get(data, "relationships", EmptyDict)
                  IN  IF links.t # "obj" \/ attributes.t # "obj" \/ relationships.t # "obj"
                      THEN Raise
                      ELSE IF \E r \in counted(relationships) :
                                  ~has_len(relationships.v[r].v["data"])
                      THEN Raise
                      ELSE Return(flat_counts(relationships)
                                  @@ flat_attributes(attributes)
                                  @@ flat_head(data, links))

flatten_document_data(json_data) ==
    IF json_data.t # "obj" THEN Raise
    ELSE LET data == dict_get(json_data, "data", EmptyDict)
         IN  IF data.t # "obj" THEN Raise
             ELSE LET links == dict_get(data, "links", EmptyDict)
                      attributes == dict_get(data, "attributes", EmptyDict)
                      relationships == dict_get(data, "relationships", EmptyDict)
                  IN  IF links.t # "obj" \/ attributes.t # "obj" \/ relationships.t # "obj"
                      THEN Raise
                      ELSE IF \E r \in counted(relationships) :
                                  ~has_len(relationships.v[r].v["data"])
                      THEN Raise
                      ELSE Return(flat_counts(relationships)
                                  @@ flat_attributes(attributes)
                                  @@ flat_head(data, links))

\* flatten_comment_data without its attachment columns
flatten_comment_data_generic(json_data) == flatten_document_data(json_data)

flatten_comment_data(json_data) ==
    IF json_data.t # "obj" THEN Raise
    ELSE LET data == dict_get(json_data, "data", EmptyDict)
         IN  IF data.t # "obj" THEN Raise
             ELSE LET links == dict_get(data, "links", EmptyDict)
                      attributes == dict_get(data, "attributes", EmptyDict)
                      relationships == dict_get(data, "relationships", EmptyDict)
                  IN  IF links.t # "obj" \/ attributes.t # "obj" \/ relationships.t # "obj"
                      THEN Raise
                      ELSE LET attachments == dict_get(relationships, "attachments", EmptyDict)
                           IN  IF attachments.t # "obj" THEN Raise
                               ELSE LET adata == dict_get(attachments, "data", EmptyList)
                                        included == dict_get(json_data, "included", EmptyList)
                                    IN  IF ~has_len(adata) THEN Raise
                                        ELSE IF truthy(included) /\ ~has_len(included) THEN Raise
                                        ELSE Return(
                                          [has_attachments |-> JBool(py_len(adata) > 0),
                                           attachment_count |-> JNum(py_len(adata)),
                                           has_included_attachments |-> JBool(truthy(included)),
                                           included_attachment_count |->
                                               JNum(IF truthy(included) THEN py_len(included) ELSE 0)]
                                          @@ flat_attributes(attributes)
                                          @@ flat_head(data, links))

\* The flatten function of a table: docket_info, documents or comments.
flatten(table, json_data) ==
    CASE table = "docket_info" -> flatten_docket_data(json_data)
      [] table = "documents"   -> flatten_document_data(json_data)
      [] table = "comments"    -> flatten_comment_data(json_data)

(***************************************************************************)
(* The storage behind the adapter: a file system is a sequence of entries  *)
(* in listing order.  An entry is a directory or a file; perm "denied"     *)
(* makes listing or opening it raise PermissionError; a file's body is     *)
(* its parsed JSON, or "garbage" when json.load raises JSONDecodeError.    *)
(* Entry paths are stored resolved (no trailing or repeated '/').          *)
(***************************************************************************)
NoBody == [parse |-> "none", json |-> JNull]
Entry(p, kind, perm, body) ==
    [path |-> p, parent |-> get_parent_path(p), kind |-> kind, perm |-> perm, body |-> body]
Dir(p) == Entry(p, "dir", "ok", NoBody)
File(p, j) == Entry(p, "file", "ok", [parse |-> "ok", json |-> j])
Garbage(p) == Entry(p, "file", "ok", [parse |-> "garbage", json |-> JNull])
Denied(p) == Entry(p, "file", "denied", NoBody)

\* The entry path a path string denotes on its backend.
resolve(path) == IF is_s3_path(path) THEN rstrip(path, "/") ELSE PathStr(path)

has_entry(fs, path) ==
    LET rp == resolve(path) IN \E i \in 1..Len(fs) : fs[i].path = rp
entry_at(fs, path) ==
    LET rp == resolve(path) IN fs[CHOOSE i \in 1..Len(fs) : fs[i].path = rp]

\* The immediate children of a directory, in listing order.
children(fs, path) ==
    LET rp == resolve(path) IN SelectSeq(fs, LAMBDA e : e.path # rp /\ e.parent = rp)

listable(fs, path) ==
    /\ has_entry(fs, path)
    /\ LET e == entry_at(fs, path) IN e.kind = "dir" /\ e.perm = "ok"

\* s3_fs.ls(path): the full paths of the children; raises on a missing or
\* forbidden prefix.  Items carry the prefix they were listed under, which is
\* the format list_directory's first branch expects.
s3_ls(fs, path) ==
    IF listable(fs, path)
    THEN LET kids == children(fs, path)
         IN  [raised |-> FALSE, items |-> [i \in 1..Len(kids) |-> kids[i].path]]
    ELSE [raised |-> TRUE, items |-> <<>>]

in_seq(x, q) == \E i \in 1..Len(q) : q[i] = x

RECURSIVE s3_names(_, _, _)
s3_names(items, path, contents) ==
    IF items = <<>> THEN contents
    ELSE LET item == Head(items)
             relative_name == rstrip(SubSeq(item, Len(path) + 1, Len(item)), "/")
             item_name == get_name(item)
         IN  IF startswith(item, path)
             THEN IF relative_name # "" /\ ~contains(relative_name, "/")
                  THEN s3_names(Tail(items), path, Append(contents, relative_name))
                  ELSE s3_names(Tail(items), path, contents)
             ELSE IF item_name # "" /\ ~in_seq(item_name, contents)
                  THEN s3_names(Tail(items), path, Append(contents, item_name))
                  ELSE s3_names(Tail(items), path, contents)

list_directory(fs, path) ==
    IF is_s3_path(path)
    THEN LET slashed == IF endswith(path, "/") THEN path ELSE path \o "/"
             ls == s3_ls(fs, slashed)
         IN  IF ls.raised THEN <<>> ELSE s3_names(ls.items, slashed, <<>>)
    ELSE IF listable(fs, path)
         THEN LET kids == children(fs, path)
              IN  [i \in 1..Len(kids) |-> PathName(kids[i].path)]
         ELSE <<>>

path_exists(fs, path) == has_entry(fs, path)

is_directory(fs, path) == has_entry(fs, path) /\ entry_at(fs, path).kind = "dir"

glob_files(fs, directory, pattern) ==
    IF is_s3_path(directory)
    THEN LET regex_pattern == replace_star(pattern)
             ls == s3_ls(fs, directory)
         IN  IF ls.raised THEN <<>>
             ELSE SelectSeq(ls.items, LAMBDA item : re_match(regex_pattern, get_name(item)))
    ELSE IF listable(fs, directory)
         THEN LET hits == SelectSeq(children(fs, directory),
                                    LAMBDA e : fnmatch(PathName(e.path), pattern))
              IN  [i \in 1..Len(hits) |-> PathJoin(directory, <<PathName(hits[i].path)>>)]
         ELSE <<>>

\* load_json_file: the parsed value, None (JNull) when the file is missing,
\* is a directory or does not parse, and a raise on PermissionError only.
load_json_file(fs, file_path) ==
    IF ~has_entry(fs, file_path) THEN [raised |-> FALSE, value |-> JNull]
    ELSE LET e == entry_at(fs, file_path)
         IN  IF e.perm = "denied" THEN [raised |-> TRUE, value |-> JNull]
             ELSE IF e.kind = "dir" \/ e.body.parse # "ok"
                  THEN [raised |-> FALSE, value |-> JNull]
             ELSE [raised |-> FALSE, value |-> e.body.json]

(***************************************************************************)
(* process_docket.  An outcome carries exc: "none", "fatal" (a             *)
(* PermissionError raised by load_json_file) or "error" (an exception      *)
(* raised by a flatten function); the first raise ends the call.           *)
(***************************************************************************)
\* for f in files: data = load_json_file(f); if data: rows.append(flatten(data))
RECURSIVE load_all(_, _, _, _)
load_all(fs, files, table, rows) ==
    IF files = <<>> THEN [exc |-> "none", rows |-> rows]
    ELSE LET loaded == load_json_file(fs, Head(files))
             flat == flatten(table, loaded.value)
         IN  IF loaded.raised THEN [exc |-> "fatal", rows |-> rows]
             ELSE IF ~truthy(loaded.value) THEN load_all(fs, Tail(files), table, rows)
             ELSE IF flat.raised THEN [exc |-> "error", rows |-> rows]
             ELSE load_all(fs, Tail(files), table, Append(rows, flat.row))

\* for path in candidates: if path_exists(path): data = load_json_file(path);
\*     if data: docket_info = flatten_docket_data(data); break
RECURSIVE try_docket_files(_, _)
try_docket_files(fs, candidates) ==
    IF candidates = <<>> THEN [exc |-> "none", info |-> JNull]
    ELSE IF ~path_exists(fs, Head(candidates)) THEN try_docket_files(fs, Tail(candidates))
    ELSE LET loaded == load_json_file(fs, Head(candidates))
             flat == flatten_docket_data(loaded.value)
         IN  IF loaded.raised THEN [exc |-> "fatal", info |-> JNull]
             ELSE IF ~truthy(loaded.value) THEN try_docket_files(fs, Tail(candidates))
             ELSE IF flat.raised THEN [exc |-> "error", info |-> JNull]
             ELSE [exc |-> "none", info |-> flat.row]

\* [d for d in list_directory(base) if d.startswith('text-')]
text_subdirs(fs, base) ==
    SelectSeq(list_directory(fs, base), LAMBDA d : startswith(d, "text-"))

\* for text_subdir in text_subdirs: dir = join_paths(base, text_subdir, table);
\*     if path_exists(dir): load every *.json of it (no break: all text-* dirs add rows)
RECURSIVE load_text_dirs(_, _, _, _, _)
load_text_dirs(fs, base, subdirs, table, rows) ==
    IF subdirs = <<>> THEN [exc |-> "none", rows |-> rows]
    ELSE LET dir == join_paths(base, <<Head(subdirs), table>>)
             Rest(got) == IF got.exc # "none" THEN got
                          ELSE load_text_dirs(fs, base, Tail(subdirs), table, got.rows)
         IN  Rest(IF path_exists(fs, dir)
                  THEN load_all(fs, glob_files(fs, dir, "*.json"), table, rows)
                  ELSE [exc |-> "none", rows |-> rows])

\* [join_paths(base, text_subdir, 'docket', f'{docket_id}.json') for each text-* dir]
text_docket_files(base, subdirs, docket_id) ==
    [i \in 1..Len(subdirs) |->
        join_paths(join_paths(base, <<subdirs[i]>>), <<"docket", docket_id \o ".json">>)]

\* ---- raw-data branch: lines 421-536 ----
raw_docket_info(fs, docket_path, docket_id) ==
    LET raw_data_path == join_paths(docket_path, <<"raw-data">>)
        docket_file == join_paths(raw_data_path, <<"docket", docket_id \o ".json">>)
        alt_paths == <<join_paths(raw_data_path, <<"docket.json">>),
                       join_paths(raw_data_path, <<docket_id \o ".json">>)>>
        Fallback(alt) ==
            IF alt.exc # "none" \/ alt.info # JNull THEN alt
            ELSE try_docket_files(fs, text_docket_files(raw_data_path,
                                          text_subdirs(fs, raw_data_path), docket_id))
    IN  IF path_exists(fs, docket_file) THEN try_docket_files(fs, <<docket_file>>)
        ELSE Fallback(try_docket_files(fs, alt_paths))

raw_documents(fs, docket_path) ==
    LET raw_data_path == join_paths(docket_path, <<"raw-data">>)
        documents_dir == join_paths(raw_data_path, <<"documents">>)
        Fallback(flat) ==
            IF flat.exc # "none" \/ flat.rows # <<>> THEN flat
            ELSE load_text_dirs(fs, raw_data_path, text_subdirs(fs, raw_data_path),
                                "documents", <<>>)
    IN  Fallback(IF path_exists(fs, documents_dir)
                 THEN load_all(fs, glob_files(fs, documents_dir, "*.json"), "documents", <<>>)
                 ELSE [exc |-> "none", rows |-> <<>>])

\* Variant: the raw-data branch without the text-* fallback for comments.
raw_comments_flat_only(fs, docket_path) ==
    LET comments_dir == join_paths(join_paths(docket_path, <<"raw-data">>), <<"comments">>)
    IN  IF path_exists(fs, comments_dir)
        THEN load_all(fs, glob_files(fs, comments_dir, "*.json"), "comments", <<>>)
        ELSE [exc |-> "none", rows |-> <<>>]

raw_comments(fs, docket_path) ==
    LET raw_data_path == join_paths(docket_path, <<"raw-data">>)
        comments_dir == join_paths(raw_data_path, <<"comments">>)
        Fallback(flat) ==
            IF flat.exc # "none" \/ flat.rows # <<>> THEN flat
            ELSE load_text_dirs(fs, raw_data_path, text_subdirs(fs, raw_data_path),
                                "comments", <<>>)
    IN  Fallback(IF path_exists(fs, comments_dir)
                 THEN load_all(fs, glob_files(fs, comments_dir, "*.json"), "comments", <<>>)
                 ELSE [exc |-> "none", rows |-> <<>>])

\* ---- direct branch: lines 539-630 ----
direct_docket_info(fs, docket_path, docket_id) ==
    LET docket_file == join_paths(docket_path, <<"docket", docket_id \o ".json">>)
        alt_paths == <<join_paths(docket_path, <<"docket.json">>),
                       join_paths(docket_path, <<docket_id \o ".json">>)>>
        Fallback(alt) ==
            IF alt.exc # "none" \/ alt.info # JNull THEN alt
            ELSE try_docket_files(fs, text_docket_files(docket_path,
                                          text_subdirs(fs, docket_path), docket_id))
    IN  IF path_exists(fs, docket_file) THEN try_docket_files(fs, <<docket_file>>)
        ELSE Fallback(try_docket_files(fs, alt_paths))

\* Variant: the direct branch without the text-* fallback for documents.
direct_documents_flat_only(fs, docket_path) ==
    LET documents_dir == join_paths(docket_path, <<"documents">>)
    IN  IF path_exists(fs, documents_dir)
        THEN load_all(fs, glob_files(fs, documents_dir, "*.json"), "documents", <<>>)
        ELSE [exc |-> "none", rows |-> <<>>]

direct_documents(fs, docket_path) ==
    LET documents_dir == join_paths(docket_path, <<"documents">>)
        Fallback(flat) ==
            IF flat.exc # "none" \/ flat.rows # <<>> THEN flat
            ELSE load_text_dirs(fs, docket_path, text_subdirs(fs, docket_path),
                                "documents", <<>>)
    IN  Fallback(IF path_exists(fs, documents_dir)
                 THEN load_all(fs, glob_files(fs, documents_dir, "*.json"), "documents", <<>>)
                 ELSE [exc |-> "none", rows |-> <<>>])

direct_comments(fs, docket_path) ==
    LET comments_dir == join_paths(docket_path, <<"comments">>)
        Fallback(flat) ==
            IF flat.exc # "none" \/ flat.rows # <<>> THEN flat
            ELSE load_text_dirs(fs, docket_path, text_subdirs(fs, docket_path),
                                "comments", <<>>)
    IN  Fallback(IF path_exists(fs, comments_dir)
                 THEN load_all(fs, glob_files(fs, comments_dir, "*.json"), "comments", <<>>)
                 ELSE [exc |-> "none", rows |-> <<>>])

\* Agency of a docket identifier, as process_docket derives it (lines 389-394).
docket_agency(docket_id) ==
    IF contains(docket_id, "/") THEN split_first(docket_id, "/")
    ELSE IF contains(docket_id, "-") THEN split_first(docket_id, "-")
    ELSE "UNKNOWN"

process_docket(fs, docket_path) ==
    LET docket_id == get_name(docket_path)
        raw_data_path == join_paths(docket_path, <<"raw-data">>)
        Result(docket_info, documents, comments) ==
            [docket_info |-> docket_info, documents |-> documents, comments |-> comments,
             agency |-> docket_agency(docket_id), docket_id |-> docket_id]
        Failed(exc) == [exc |-> exc, result |-> Result(JNull, <<>>, <<>>)]
        Outcome(info, docs, coms) ==
            IF info.exc # "none" THEN Failed(info.exc)
            ELSE IF docs.exc # "none" THEN Failed(docs.exc)
            ELSE IF coms.exc # "none" THEN Failed(coms.exc)
            ELSE [exc |-> "none", result |-> Result(info.info, docs.rows, coms.rows)]
    IN  IF ~path_exists(fs, docket_path)
        THEN [exc |-> "none", result |-> Result(JNull, <<>>, <<>>)]
        ELSE IF path_exists(fs, raw_data_path)
        THEN Outcome(raw_docket_info(fs, docket_path, docket_id),
                     raw_documents(fs, docket_path),
                     raw_comments(fs, docket_path))
        ELSE Outcome(direct_docket_info(fs, docket_path, docket_id),
                     direct_documents(fs, docket_path),
                     direct_comments(fs, docket_path))

(***************************************************************************)
(* IcebergConverter: construction, filters, output location.               *)
(***************************************************************************)
\* str.upper() on ASCII letters
UpperOf ==
    [a |-> "A", b |-> "B", c |-> "C", d |-> "D", e |-> "E", f |-> "F", g |-> "G",
     h |-> "H", i |-> "I", j |-> "J", k |-> "K", l |-> "L", m |-> "M", n |-> "N",
     o |-> "O", p |-> "P", q |-> "Q", r |-> "R", s |-> "S", t |-> "T", u |-> "U",
     v |-> "V", w |-> "W", x |-> "X", y |-> "Y", z |-> "Z"]

RECURSIVE upper(_)
upper(s) ==
    IF s = "" THEN ""
    ELSE (IF Head(s) \in DOMAIN UpperOf THEN UpperOf[Head(s)] ELSE Head(s)) \o upper(Tail(s))

\* __init__(data_path, output_path): "" stands for an output_path that was not
\* given (None); `if output_path:` treats both alike.
IcebergConverter(data_path, output_path) ==
    LET given == output_path # ""
        out == IF given THEN output_path
               ELSE IF is_s3_path(data_path) THEN data_path \o "/derived-data"
               ELSE PathJoin(data_path, <<"derived-data">>)
    IN  [data_path |-> data_path,
         is_s3_source |-> is_s3_path(data_path),
         output_path |-> out,
         use_derived_data_subdir |-> given,
         is_s3_target |-> is_s3_path(out),
         agency_filter |-> "",
         docket_pattern_filter |-> ""]

\* add_filters(agency, docket_pattern); "" stands for None
add_filters(conv, agency, docket_pattern) ==
    [conv EXCEPT !.agency_filter = IF agency # "" THEN upper(agency) ELSE @,
                 !.docket_pattern_filter = IF docket_pattern # "" THEN docket_pattern ELSE @]

\* Variant: the agency is always the text before the first '-'.
filter_agency_dash_only(docket_name) ==
    IF contains(docket_name, "-") THEN split_first(docket_name, "-") ELSE "UNKNOWN"

\* Agency of a docket name, as _should_process_docket derives it (lines 1057-1062).
filter_agency(docket_name) ==
    IF contains(docket_name, "/") THEN split_first(docket_name, "/")
    ELSE IF contains(docket_name, "-") THEN split_first(docket_name, "-")
    ELSE "UNKNOWN"

_should_process_docket(conv, docket_path) ==
    LET docket_name == get_name(docket_path)
        agency == filter_agency(docket_name)
    IN  /\ (conv.agency_filter # "" => agency = conv.agency_filter)
        /\ (conv.docket_pattern_filter # ""
              => fnmatch(docket_name, conv.docket_pattern_filter))

\* Variant: the derived-data segment is added under the default root as well.
output_dir_always_derived(conv, docket_data) ==
    join_paths(conv.output_path,
               <<"derived-data", docket_data.agency, docket_data.docket_id, "iceberg">>)

\* save_docket_dataset, lines 711-720: the directory a docket's tables go to
output_dir(conv, docket_data) ==
    IF conv.use_derived_data_subdir
    THEN join_paths(conv.output_path,
                    <<"derived-data", docket_data.agency, docket_data.docket_id, "iceberg">>)
    ELSE join_paths(conv.output_path,
                    <<docket_data.agency, docket_data.docket_id, "iceberg">>)

\* save_to_parquet: the file a table goes to
parquet_path(output_directory, table_name) ==
    join_paths(output_directory, <<table_name \o ".parquet">>)

\* The tables of a docket in the order save_docket_dataset writes them, and the
\* rows handed to save_to_parquet for each.
TableNames == <<"docket_info", "documents", "comments">>

table_rows(docket_data, table_name) ==
    IF table_name = "docket_info"
    THEN (IF docket_data.docket_info = JNull THEN <<>> ELSE <<docket_data.docket_info>>)
    ELSE docket_data[table_name]

\* The tables of a docket that have rows.
nonempty_tables(docket_data) ==
    {TableNames[k] : k \in {j \in DOMAIN TableNames : table_rows(docket_data, TableNames[j]) # <<>>}}

\* The known_agencies catalog of _convert_s3_dockets_streaming, cut down to
\* three of its entries in catalog order.
known_agencies == <<"DOT", "EPA", "FAA">>

(***************************************************************************)
(* Bounds and inputs of the driver model.                                  *)
(***************************************************************************)
\* Table writes that fail in one run.
MaxFaults == 1

SampleDoc(id) ==
    JObj([data |-> JObj([id |-> JStr(id),
                         type |-> JStr("documents"),
                         links |-> JObj([self |-> JStr("https://api/" \o id)]),
                         attributes |-> JObj([title |-> JStr("T"), withdrawn |-> JNull]),
                         relationships |->
                             JObj([attachments |-> JObj([data |-> JList(<<JNull>>)])])])])

\* What a docket directory holds:
\*   good     one docket-info file and two document files, no comments
\*   comments one comment file only
\*   empty    nothing
\*   bad      a comment file whose JSON is a list (flattening it raises)
\*   denied   a document file that may not be read
Kinds == {"good", "comments", "empty", "bad", "denied"}

DocketTree(p, id, kind) ==
    <<Dir(p)>> \o
    CASE kind = "good" ->
           <<Dir(p \o "/docket"), File(p \o "/docket/" \o id \o ".json", SampleDoc(id)),
             Dir(p \o "/documents"),
             File(p \o "/documents/" \o id \o "-0001.json", SampleDoc(id \o "-0001")),
             File(p \o "/documents/" \o id \o "-0002.json", SampleDoc(id \o "-0002"))>>
      [] kind = "comments" ->
           <<Dir(p \o "/comments"),
             File(p \o "/comments/" \o id \o "-0003.json", SampleDoc(id \o "-0003"))>>
      [] kind = "empty" -> <<>>
      [] kind = "bad" ->
           <<Dir(p \o "/comments"),
             File(p \o "/comments/" \o id \o "-0003.json", JList(<<JNull>>))>>
      [] kind = "denied" ->
           <<Dir(p \o "/documents"),
             Denied(p \o "/documents/" \o id \o "-0001.json")>>

\* The docket directories of the corpus in listing order, with the kinds each
\* may be of: two under FAA, one under EPA.  The directory under EPA is named
\* EPA-1, or FAA-1 like the first one under FAA.
Slots ==
    <<[agency |-> "FAA", names |-> {"FAA-1"}, kinds |-> {"good", "empty", "bad", "denied"}],
      [agency |-> "FAA", names |-> {"nosep"}, kinds |-> {"good", "comments", "empty"}],
      [agency |-> "EPA", names |-> {"EPA-1", "FAA-1"},
       kinds |-> {"good", "comments", "bad", "denied"}]>>

\* One name, or one kind, for every slot.
Choices(field) ==
    {f \in [DOMAIN Slots -> UNION {Slots[i][field] : i \in DOMAIN Slots}] :
        \A i \in DOMAIN Slots : f[i] \in Slots[i][field]}

\* A corpus <root>/raw-data/<agency>/<docket>; notes.txt is a plain file among
\* the agency directories.
Corpus(root, name, kind) ==
    <<Dir(root), Dir(root \o "/raw-data"), Dir(root \o "/raw-data/FAA")>>
    \o DocketTree(root \o "/raw-data/FAA/" \o name[1], name[1], kind[1])
    \o DocketTree(root \o "/raw-data/FAA/" \o name[2], name[2], kind[2])
    \o <<File(root \o "/raw-data/notes.txt", JNull), Dir(root \o "/raw-data/EPA")>>
    \o DocketTree(root \o "/raw-data/EPA/" \o name[3], name[3], kind[3])

\* The source storages of a run: every corpus over Slots, a missing data
\* directory, and a data directory without raw-data.
Corpora(root) ==
    {Corpus(root, name, kind) : name \in Choices("names"), kind \in Choices("kinds")}
    \cup {<<>>, <<Dir(root)>>}

\* Command lines: data_path, --output-path, --agency, --docket-pattern
\* ("" when the option is not given).
Config(d, o, a, p) == [data_path |-> d, output_path |-> o, agency |-> a, docket_pattern |-> p]

Configs ==
    {Config("/data", "", "", ""),
     Config("/data", "/out", "", "FAA-*"),
     Config("/data", "s3://bucket/out", "faa", ""),
     Config("s3://bucket/data", "", "", ""),
     Config("s3://bucket/data", "/out", "", "FAA-1"),
     Config("s3://bucket/data", "s3://bucket/out", "epa", "")}

(***************************************************************************)
(* State of one run of main().                                             *)
(***************************************************************************)
VARIABLES
    conv,         \* the IcebergConverter's configuration fields
    stats,        \* self.stats: dockets_processed, dockets_skipped, errors
    src,          \* the source storage
    out,          \* the table files of the output storage: path -> file
    out_dirs,     \* the directories made in the local output storage
    pc,           \* where the run is
    agency_list,  \* the agencies the streaming loop iterates
    ai,           \* position in agency_list
    docket_dirs,  \* the listing of the current agency
    di,           \* position in docket_dirs
    cur,          \* the docket inside _process_single_docket
    exit_code,    \* the process exit status, -1 while running
    faults,       \* table writes that failed so far
    log,          \* history: one record per docket handed to _process_single_docket
    hist,         \* history: the command line, what happened to the run, and the
                  \* number of calls of _process_single_docket
    lay,          \* state of the layout comparison (SpecLayout)
    unit          \* state of the function-level runs (SpecFlatten, SpecFilter)

vars == <<conv, stats, src, out, out_dirs, pc, agency_list, ai, docket_dirs, di, cur,
          exit_code, faults, log, hist, lay, unit>>

NoDocket == [path |-> "", mode |-> "", data |-> <<>>, k |-> 0, success |-> TRUE,
             files_created |-> 0, before |-> <<>>, fresh |-> FALSE, write_failed |-> FALSE]

NoLayout == [phase |-> "off"]

NoUnit == [phase |-> "off"]

\* main() is started on one of the command lines `configs`, on one corpus.
InitRun(configs) ==
    /\ \E cfg \in configs :
         /\ conv = add_filters(IcebergConverter(cfg.data_path, cfg.output_path),
                               cfg.agency, cfg.docket_pattern)
         /\ src \in Corpora(cfg.data_path)
         /\ hist = [argv |-> cfg, preflight_failed |-> FALSE, fatal_seen |-> FALSE,
                    after_fatal |-> 0, interrupted |-> FALSE, uncaught |-> FALSE,
                    attempted |-> 0]
    /\ stats = [dockets_processed |-> 0, dockets_skipped |-> 0, errors |-> 0]
    /\ out = <<>>
    /\ out_dirs = {}
    /\ pc = "main"
    /\ agency_list = <<>>
    /\ ai = 0
    /\ docket_dirs = <<>>
    /\ di = 0
    /\ cur = NoDocket
    /\ exit_code = -1
    /\ faults = 0
    /\ log = <<>>
    /\ lay = NoLayout

Init == InitRun(Configs) /\ unit = NoUnit

(***************************************************************************)
(* check_permissions.  e is what the operating system / object store       *)
(* answers: whether the data directory is readable, whether the output     *)
(* path exists, whether the output path can be written or created.         *)
(***************************************************************************)
check_permissions(c, fs, e) ==
    IF ~path_exists(fs, c.data_path) THEN [raised |-> TRUE, created |-> FALSE]
    ELSE IF ~is_s3_path(c.data_path) /\ ~e.readable THEN [raised |-> TRUE, created |-> FALSE]
    ELSE IF e.out_exists
         THEN [raised |-> ~is_s3_path(c.output_path) /\ ~e.out_writable, created |-> FALSE]
    ELSE IF is_s3_path(c.output_path)
         THEN [raised |-> ~e.out_writable, created |-> FALSE]
    ELSE [raised |-> ~e.out_writable, created |-> e.out_writable]

\* Variant: a failed permission check is logged and the conversion starts all
\* the same.
Preflight_unchecked ==
    /\ pc = "main"
    /\ \E e \in [readable : BOOLEAN, out_exists : BOOLEAN, out_writable : BOOLEAN] :
         LET valid == is_s3_path(conv.data_path) \/ path_exists(src, conv.data_path)
             chk == check_permissions(conv, src, e)
         IN  /\ pc' = "stream"
             /\ hist' = [hist EXCEPT !.preflight_failed = ~valid \/ chk.raised]
             /\ out_dirs' = out_dirs
    /\ UNCHANGED <<conv, stats, src, out, agency_list, ai, docket_dirs, di, cur, exit_code,
                   faults, log, lay, unit>>

\* main() up to convert_all's permission check: the data-path validation of
\* main (line 1192) and check_permissions; a failure ends the process with 1.
Preflight ==
    /\ pc = "main"
    /\ \E e \in [readable : BOOLEAN, out_exists : BOOLEAN, out_writable : BOOLEAN] :
         LET valid == is_s3_path(conv.data_path) \/ path_exists(src, conv.data_path)
             chk == check_permissions(conv, src, e)
         IN  IF ~valid \/ chk.raised
             THEN /\ pc' = "exit"
                  /\ exit_code' = 1
                  /\ hist' = [hist EXCEPT !.preflight_failed = TRUE]
                  /\ out_dirs' = out_dirs
             ELSE /\ pc' = "stream"
                  /\ exit_code' = exit_code
                  /\ hist' = hist
                  /\ out_dirs' = IF chk.created
                                 THEN out_dirs \cup {[path |-> resolve(conv.output_path),
                                                     by |-> "check_permissions"]}
                                 ELSE out_dirs
    /\ UNCHANGED <<conv, stats, src, out, agency_list, ai, docket_dirs, di, cur, faults,
                   log, lay, unit>>

\* _convert_local_dockets_streaming, lines 976-983: without <data_path>/raw-data
\* it returns at once (convert_all ignores the returned False).
StartLocal ==
    /\ pc = "stream"
    /\ ~conv.is_s3_source
    /\ LET raw_data_path == join_paths(conv.data_path, <<"raw-data">>)
       IN  agency_list' = IF path_exists(src, raw_data_path)
                          THEN list_directory(src, raw_data_path)
                          ELSE <<>>
    /\ ai' = 1
    /\ pc' = "agencies"
    /\ UNCHANGED <<conv, stats, src, out, out_dirs, docket_dirs, di, cur, exit_code, faults,
                   log, hist, lay, unit>>

\* _convert_s3_dockets_streaming, lines 906-931
StartS3 ==
    /\ pc = "stream"
    /\ conv.is_s3_source
    /\ agency_list' = IF conv.agency_filter # "" THEN <<conv.agency_filter>>
                      ELSE known_agencies
    /\ ai' = 1
    /\ pc' = "agencies"
    /\ UNCHANGED <<conv, stats, src, out, out_dirs, docket_dirs, di, cur, exit_code, faults,
                   log, hist, lay, unit>>

agency_path == join_paths(join_paths(conv.data_path, <<"raw-data">>), <<agency_list[ai]>>)

(***************************************************************************)
(* _process_single_docket.  mode is "list" when the call sits inside the   *)
(* try/except of an agency's listing loop, "probe" when it is the direct   *)
(* probe of <agency>/<docket pattern> of the S3 loop.                      *)
(***************************************************************************)
complete_files(o) == {p \in DOMAIN o : o[p].state = "complete"}

LogEntry(path, outcome, dir, tables, before, after, fresh, write_failed, files_after) ==
    [path |-> path, outcome |-> outcome, dir |-> dir, tables |-> tables, before |-> before,
     after |-> after, fresh |-> fresh, write_failed |-> write_failed,
     files_after |-> files_after]

\* Variant: the rest of the agency's listing is abandoned.
Continue_abandon(mode) ==
    /\ pc' = "agencies"
    /\ ai' = ai + 1
    /\ di' = di

\* The loop continues behind a docket that returned normally.
Continue(mode) ==
    IF mode = "list"
    THEN /\ pc' = "dockets"
         /\ di' = di + 1
         /\ ai' = ai
    ELSE /\ pc' = "agencies"
         /\ ai' = ai + 1
         /\ di' = di

\* A PermissionError/OSError re-raised by _process_single_docket: inside the
\* listing loop the `except Exception` of lines 968-970 / 1008-1010 catches it
\* and continues with the next agency; from the probe it leaves convert_all and
\* main exits with 1.
Propagate(mode) ==
    IF mode = "list"
    THEN /\ pc' = "agencies"
         /\ ai' = ai + 1
         /\ di' = di
         /\ exit_code' = exit_code
    ELSE /\ pc' = "exit"
         /\ ai' = ai
         /\ di' = di
         /\ exit_code' = 1

_process_single_docket(docket_path, mode) ==
    LET errored == [stats EXCEPT !.errors = @ + 1]
        started == [hist EXCEPT !.after_fatal = IF hist.fatal_seen THEN @ + 1 ELSE @,
                                !.attempted = @ + 1]
    IN  \E r \in {process_docket(src, docket_path)} :
        CASE r.exc = "fatal" ->
               /\ stats' = errored
               /\ log' = Append(log, LogEntry(docket_path, "fatal", "", {}, stats, errored,
                                              DOMAIN out = {}, FALSE, complete_files(out)))
               /\ hist' = [started EXCEPT !.fatal_seen = TRUE, !.uncaught = (mode = "probe")]
               /\ cur' = NoDocket
               /\ Propagate(mode)
          [] r.exc = "error" ->
               /\ stats' = errored
               /\ log' = Append(log, LogEntry(docket_path, "error", "", {}, stats, errored,
                                              DOMAIN out = {}, FALSE, complete_files(out)))
               /\ hist' = started
               /\ cur' = NoDocket
               /\ exit_code' = exit_code
               /\ Continue(mode)
          [] r.exc = "none" ->
               /\ cur' = [path |-> docket_path, mode |-> mode, data |-> r.result, k |-> 1,
                          success |-> TRUE, files_created |-> 0, before |-> stats,
                          fresh |-> (DOMAIN out = {}), write_failed |-> FALSE]
               /\ pc' = "save"
               /\ hist' = started
               /\ UNCHANGED <<stats, log, ai, di, exit_code>>

(***************************************************************************)
(* The streaming loops.                                                    *)
(***************************************************************************)
\* _convert_local_dockets_streaming, lines 985-999: one agency directory
LocalNextAgency ==
    /\ pc = "agencies"
    /\ ~conv.is_s3_source
    /\ ai <= Len(agency_list)
    /\ IF ~is_directory(src, agency_path)
          \/ (conv.agency_filter # "" /\ agency_list[ai] # conv.agency_filter)
       THEN /\ ai' = ai + 1
            /\ UNCHANGED <<pc, docket_dirs, di>>
       ELSE /\ docket_dirs' = list_directory(src, agency_path)
            /\ di' = 1
            /\ pc' = "dockets"
            /\ ai' = ai
    /\ UNCHANGED <<conv, stats, src, out, out_dirs, agency_list, cur, exit_code, faults, log,
                   hist, lay, unit>>

\* _convert_local_dockets_streaming, lines 1001-1007: one entry of the listing
LocalNextDocket ==
    /\ pc = "dockets"
    /\ ~conv.is_s3_source
    /\ IF di > Len(docket_dirs)
       THEN /\ pc' = "agencies"
            /\ ai' = ai + 1
            /\ UNCHANGED <<di, stats, cur, exit_code, log, hist>>
       ELSE LET docket_path == join_paths(agency_path, <<docket_dirs[di]>>)
            IN  IF is_directory(src, docket_path) /\ _should_process_docket(conv, docket_path)
                THEN _process_single_docket(docket_path, "list")
                ELSE /\ di' = di + 1
                     /\ UNCHANGED <<pc, ai, stats, cur, exit_code, log, hist>>
    /\ UNCHANGED <<conv, src, out, out_dirs, agency_list, docket_dirs, faults, lay, unit>>

\* _convert_s3_dockets_streaming, lines 934-959: one agency of the catalog; with
\* a docket pattern the single path <agency>/<pattern> is probed instead of listed
S3NextAgency ==
    /\ pc = "agencies"
    /\ conv.is_s3_source
    /\ ai <= Len(agency_list)
    /\ IF ~path_exists(src, agency_path)
       THEN /\ ai' = ai + 1
            /\ UNCHANGED <<pc, docket_dirs, di, stats, cur, exit_code, log, hist>>
       ELSE IF conv.docket_pattern_filter # ""
       THEN LET docket_path == join_paths(agency_path, <<conv.docket_pattern_filter>>)
            IN  /\ docket_dirs' = docket_dirs
                /\ IF /\ path_exists(src, docket_path)
                      /\ is_directory(src, docket_path)
                      /\ _should_process_docket(conv, docket_path)
                   THEN _process_single_docket(docket_path, "probe")
                   ELSE /\ ai' = ai + 1
                        /\ UNCHANGED <<pc, di, stats, cur, exit_code, log, hist>>
       ELSE /\ docket_dirs' = list_directory(src, agency_path)
            /\ di' = 1
            /\ pc' = "dockets"
            /\ UNCHANGED <<ai, stats, cur, exit_code, log, hist>>
    /\ UNCHANGED <<conv, src, out, out_dirs, agency_list, faults, lay, unit>>

\* _convert_s3_dockets_streaming, lines 961-967: one entry of the listing
S3NextDocket ==
    /\ pc = "dockets"
    /\ conv.is_s3_source
    /\ IF di > Len(docket_dirs)
       THEN /\ pc' = "agencies"
            /\ ai' = ai + 1
            /\ UNCHANGED <<di, stats, cur, exit_code, log, hist>>
       ELSE LET docket_path == join_paths(agency_path, <<docket_dirs[di]>>)
            IN  IF is_directory(src, docket_path) /\ _should_process_docket(conv, docket_path)
                THEN _process_single_docket(docket_path, "list")
                ELSE /\ di' = di + 1
                     /\ UNCHANGED <<pc, ai, stats, cur, exit_code, log, hist>>
    /\ UNCHANGED <<conv, src, out, out_dirs, agency_list, docket_dirs, faults, lay, unit>>

(***************************************************************************)
(* save_docket_dataset and save_to_parquet.                                *)
(***************************************************************************)
\* Variant: save_to_parquet is called, and writes, for empty tables too.
next_table_any(docket_data, k) == k

\* The next table save_docket_dataset hands to save_to_parquet: the first one
\* from position k on that has rows; 4 when there is none.
RECURSIVE next_table(_, _)
next_table(docket_data, k) ==
    IF k > Len(TableNames) THEN k
    ELSE IF table_rows(docket_data, TableNames[k]) # <<>> THEN k
    ELSE next_table(docket_data, k + 1)

\* How a call of save_to_parquet can end.  "written": the table is written.
\* "soft": an exception that is no OSError (or any exception on the S3 target)
\* is logged and False is returned.  "fatal": PermissionError/OSError from the
\* local write is re-raised.
write_outcomes(c, failed) ==
    {"written"}
    \cup (IF failed < MaxFaults THEN {"soft"} ELSE {})
    \cup (IF failed < MaxFaults /\ ~c.is_s3_target THEN {"fatal"} ELSE {})

\* Variant: the rows are added to the rows of the file already there.
file_of_append(path, table_name, rows, state, old) ==
    [state |-> state, table |-> table_name,
     rows |-> IF path \in DOMAIN old THEN old[path].rows \o rows ELSE rows,
     agency |-> cur.data.agency, docket_id |-> cur.data.docket_id,
     backend |-> IF conv.is_s3_target THEN "s3" ELSE "local",
     writers |-> IF path \in DOMAIN old THEN old[path].writers \cup {cur.path}
                 ELSE {cur.path}]

file_of(path, table_name, rows, state, old) ==
    [state |-> state, table |-> table_name, rows |-> rows,
     agency |-> cur.data.agency, docket_id |-> cur.data.docket_id,
     backend |-> IF conv.is_s3_target THEN "s3" ELSE "local",
     writers |-> IF path \in DOMAIN old THEN old[path].writers \cup {cur.path}
                 ELSE {cur.path}]

\* save_to_parquet, lines 654-707, for the next table with rows.  On the local
\* target df.to_parquet opens the final path and fills it: the file is there,
\* incomplete, until FinishWrite.  On the S3 target the buffer is built first
\* and put as one object.
SaveTable ==
    /\ pc = "save"
    /\ next_table(cur.data, cur.k) <= Len(TableNames)
    /\ LET k == next_table(cur.data, cur.k)
           table_name == TableNames[k]
           rows == table_rows(cur.data, table_name)
           dir == output_dir(conv, cur.data)
           path == parquet_path(dir, table_name)
           errored == [stats EXCEPT !.errors = @ + 1]
       IN  \E outcome \in write_outcomes(conv, faults) :
             /\ out_dirs' = IF conv.is_s3_target THEN out_dirs
                            ELSE out_dirs \cup {[path |-> dir, by |-> cur.path]}
             /\ CASE outcome = "written" ->
                       /\ out' = (path :> file_of(path, table_name, rows,
                                                  IF conv.is_s3_target THEN "complete"
                                                  ELSE "partial", out)) @@ out
                       /\ IF conv.is_s3_target
                          THEN /\ cur' = [cur EXCEPT !.k = k + 1, !.files_created = @ + 1]
                               /\ pc' = "save"
                          ELSE /\ cur' = [cur EXCEPT !.k = k]
                               /\ pc' = "writing"
                       /\ UNCHANGED <<stats, faults, log, hist, ai, di, exit_code>>
                  [] outcome = "soft" ->
                       /\ cur' = [cur EXCEPT !.k = k + 1, !.success = FALSE,
                                             !.write_failed = TRUE]
                       /\ faults' = faults + 1
                       /\ UNCHANGED <<out, pc, stats, log, hist, ai, di, exit_code>>
                  [] outcome = "fatal" ->
                       /\ stats' = errored
                       /\ faults' = faults + 1
                       /\ log' = Append(log, LogEntry(cur.path, "fatal", dir,
                                   nonempty_tables(cur.data),
                                   cur.before, errored, cur.fresh, TRUE, complete_files(out)))
                       /\ hist' = [hist EXCEPT !.fatal_seen = TRUE,
                                               !.uncaught = (cur.mode = "probe")]
                       /\ cur' = NoDocket
                       /\ out' = out
                       /\ Propagate(cur.mode)
    /\ UNCHANGED <<conv, src, agency_list, docket_dirs, lay, unit>>

\* df.to_parquet returns: the file is complete, save_to_parquet returns True.
FinishWrite ==
    /\ pc = "writing"
    /\ LET path == parquet_path(output_dir(conv, cur.data), TableNames[cur.k])
       IN  out' = [out EXCEPT ![path].state = "complete"]
    /\ cur' = [cur EXCEPT !.k = @ + 1, !.files_created = @ + 1]
    /\ pc' = "save"
    /\ UNCHANGED <<conv, stats, src, out_dirs, agency_list, ai, docket_dirs, di, exit_code,
                   faults, log, hist, lay, unit>>

\* Variant: the docket counts as saved as soon as one table file was written.
save_result_any(files_created, success) == files_created > 0

\* Variant: the files_created == 0 test is missing.
save_result_lax(files_created, success) == success

\* save_docket_dataset's return value, lines 745-751
save_result(files_created, success) == IF files_created = 0 THEN FALSE ELSE success

\* Variant: a docket whose dataset was not saved is not counted.
EndDocket_uncounted ==
    /\ pc = "save"
    /\ next_table(cur.data, cur.k) > Len(TableNames)
    /\ LET saved == save_result(cur.files_created, cur.success)
           after == IF saved THEN [stats EXCEPT !.dockets_processed = @ + 1] ELSE stats
       IN  /\ stats' = after
           /\ log' = Append(log, LogEntry(cur.path,
                        IF saved THEN "processed" ELSE "skipped",
                        output_dir(conv, cur.data), nonempty_tables(cur.data),
                        cur.before, after, cur.fresh, cur.write_failed, complete_files(out)))
    /\ cur' = NoDocket
    /\ Continue(cur.mode)
    /\ UNCHANGED <<conv, src, out, out_dirs, agency_list, docket_dirs, exit_code, faults,
                   hist, lay, unit>>

\* save_docket_dataset returns and _process_single_docket counts the docket
\* (lines 1024-1029).
EndDocket ==
    /\ pc = "save"
    /\ next_table(cur.data, cur.k) > Len(TableNames)
    /\ LET saved == save_result(cur.files_created, cur.success)
           after == IF saved THEN [stats EXCEPT !.dockets_processed = @ + 1]
                    ELSE [stats EXCEPT !.dockets_skipped = @ + 1]
       IN  /\ stats' = after
           /\ log' = Append(log, LogEntry(cur.path,
                        IF saved THEN "processed" ELSE "skipped",
                        output_dir(conv, cur.data), nonempty_tables(cur.data),
                        cur.before, after, cur.fresh, cur.write_failed, complete_files(out)))
    /\ cur' = NoDocket
    /\ Continue(cur.mode)
    /\ UNCHANGED <<conv, src, out, out_dirs, agency_list, docket_dirs, exit_code, faults,
                   hist, lay, unit>>

(***************************************************************************)
(* The end of the run.                                                     *)
(***************************************************************************)
\* convert_all, lines 1153-1169, and main: False (exit 1) when errors > 0
Finish ==
    /\ pc = "agencies"
    /\ ai > Len(agency_list)
    /\ exit_code' = IF stats.errors > 0 THEN 1 ELSE 0
    /\ pc' = "exit"
    /\ UNCHANGED <<conv, stats, src, out, out_dirs, agency_list, ai, docket_dirs, di, cur,
                   faults, log, hist, lay, unit>>

\* KeyboardInterrupt: no `except Exception` catches it, main exits with 1
\* (lines 1215-1217).  It can arrive at any point of the conversion; the loop
\* variables go with the stack.
Interrupt ==
    /\ pc \in {"stream", "agencies", "dockets", "save", "writing"}
    /\ pc' = "exit"
    /\ exit_code' = 1
    /\ hist' = [hist EXCEPT !.interrupted = TRUE]
    /\ agency_list' = <<>>
    /\ ai' = 0
    /\ docket_dirs' = <<>>
    /\ di' = 0
    /\ cur' = NoDocket
    /\ UNCHANGED <<conv, stats, src, out, out_dirs, faults, log, lay, unit>>

Next ==
    \/ Preflight
    \/ StartLocal
    \/ StartS3
    \/ LocalNextAgency
    \/ LocalNextDocket
    \/ S3NextAgency
    \/ S3NextDocket
    \/ SaveTable
    \/ FinishWrite
    \/ EndDocket
    \/ Finish
    \/ Interrupt

Spec == Init /\ [][Next]_vars

(***************************************************************************)
(* Two runs of main() in a row, with the same command line, on the same    *)
(* corpus and the same output storage, the second after the first has      *)
(* ended by itself.  unit keeps what the first run left in the output      *)
(* storage.                                                                *)
(***************************************************************************)
RerunConfigs ==
    {Config("/data", "", "", ""),
     Config("s3://bucket/data", "s3://bucket/out", "epa", "")}

InitRerun ==
    /\ InitRun(RerunConfigs)
    /\ unit = [phase |-> "rerun", run |-> 1, first |-> <<>>]

\* The run has ended by itself: the pre-flight passed, no write failed, nothing
\* fatal was raised and the run was not interrupted.
RunClean ==
    /\ pc = "exit"
    /\ faults = 0
    /\ ~hist.preflight_failed
    /\ ~hist.fatal_seen
    /\ ~hist.interrupted

\* main() is started again after the first process has ended by itself: a new
\* converter with new statistics (lines 1195-1207), the storage as it was left.
Rerun ==
    /\ RunClean
    /\ unit.phase = "rerun"
    /\ unit.run = 1
    /\ unit' = [unit EXCEPT !.run = 2, !.first = out]
    /\ pc' = "main"
    /\ stats' = [dockets_processed |-> 0, dockets_skipped |-> 0, errors |-> 0]
    /\ exit_code' = -1
    /\ log' = <<>>
    /\ hist' = [hist EXCEPT !.preflight_failed = FALSE, !.fatal_seen = FALSE,
                            !.after_fatal = 0, !.interrupted = FALSE, !.uncaught = FALSE,
                            !.attempted = 0]
    /\ agency_list' = <<>>
    /\ ai' = 0
    /\ docket_dirs' = <<>>
    /\ di' = 0
    /\ cur' = NoDocket
    /\ UNCHANGED <<conv, src, out, out_dirs, faults, lay>>

NextRerun == Next \/ Rerun

SpecRerun == InitRerun /\ [][NextRerun]_vars

(***************************************************************************)
(* The four layouts of a docket directory.  One content (a docket-info     *)
(* file, document files, comment files) is placed under each layout on one *)
(* backend, and process_docket reads each placement.                       *)
(***************************************************************************)
Layouts == {"raw_flat", "raw_text", "direct_flat", "direct_text"}

\* What a source file can be: valid JSON of a record, JSON that is a list,
\* a JSON object without a `data` member, bytes that do not parse, a file that
\* may not be read.
LayoutFile(p, id, what) ==
    CASE what = "ok"      -> File(p, SampleDoc(id))
      [] what = "list"    -> File(p, JList(<<JNull>>))
      [] what = "nodata"  -> File(p, JObj([meta |-> JStr(id)]))
      [] what = "garbage" -> Garbage(p)
      [] what = "denied"  -> Denied(p)

\* The contents tried: the docket-info file ("none": there is none), and the
\* document and comment files in listing order.
InfoChoices == {"none", "ok", "list", "garbage", "denied"}
DocumentChoices == {<<>>, <<"ok">>, <<"ok", "ok">>, <<"garbage", "ok">>, <<"ok", "denied">>,
                    <<"nodata", "ok">>}
CommentChoices == {<<>>, <<"ok">>, <<"ok", "list">>}
DocketRoots == {"/data/raw-data/FAA/FAA-1", "s3://bucket/data/raw-data/FAA/FAA-1"}

\* The files of one table directory, numbered from `first`.
TableFiles(dir, id, whats, first) ==
    IF whats = <<>> THEN <<>>
    ELSE <<Dir(dir)>> \o
         [i \in 1..Len(whats) |->
             LayoutFile(dir \o "/" \o id \o "-000" \o ToString(first + i) \o ".json",
                        id \o "-000" \o ToString(first + i), whats[i])]

\* The docket directory docket_path holding `content` under `layout`.
LayoutTree(docket_path, layout, content) ==
    LET id == get_name(docket_path)
        raw == layout \in {"raw_flat", "raw_text"}
        text == layout \in {"raw_text", "direct_text"}
        base == IF raw THEN docket_path \o "/raw-data" ELSE docket_path
        inner == IF text THEN base \o "/text-" \o id ELSE base
    IN  <<Dir(docket_path)>>
        \o (IF raw THEN <<Dir(base)>> ELSE <<>>)
        \o (IF text THEN <<Dir(inner)>> ELSE <<>>)
        \o (IF content.info = "none" THEN <<>>
            ELSE <<Dir(inner \o "/docket"),
                   LayoutFile(inner \o "/docket/" \o id \o ".json", id, content.info)>>)
        \o TableFiles(inner \o "/documents", id, content.documents, 0)
        \o TableFiles(inner \o "/comments", id, content.comments, Len(content.documents))

\* The driver at rest while one function is run on its own: no corpus, no
\* output and no docket in hand; pc names the function-level run.
Idle(phase) ==
    /\ conv = IcebergConverter("/data", "")
    /\ stats = [dockets_processed |-> 0, dockets_skipped |-> 0, errors |-> 0]
    /\ src = <<>>
    /\ out = <<>>
    /\ out_dirs = {}
    /\ pc = phase
    /\ agency_list = <<>>
    /\ ai = 0
    /\ docket_dirs = <<>>
    /\ di = 0
    /\ cur = NoDocket
    /\ exit_code = -1
    /\ faults = 0
    /\ log = <<>>
    /\ hist = [argv |-> Config("/data", "", "", ""), preflight_failed |-> FALSE,
               fatal_seen |-> FALSE, after_fatal |-> 0, interrupted |-> FALSE,
               uncaught |-> FALSE, attempted |-> 0]

idle_vars == <<conv, stats, src, out, out_dirs, pc, agency_list, ai, docket_dirs, di, cur,
               exit_code, faults, log, hist>>

InitLayout ==
    /\ \E root \in DocketRoots, info \in InfoChoices, documents \in DocumentChoices,
          comments \in CommentChoices :
         lay = [phase |-> "compare", docket_path |-> root,
                content |-> [info |-> info, documents |-> documents, comments |-> comments],
                results |-> <<>>]
    /\ unit = NoUnit
    /\ Idle("layouts")

\* process_docket on the placement of the content under one layout
ProcessLayout(layout) ==
    /\ lay.phase = "compare"
    /\ layout \notin DOMAIN lay.results
    /\ \E fs \in {LayoutTree(lay.docket_path, layout, lay.content)} :
         \E r \in {process_docket(fs, lay.docket_path)} :
            lay' = [lay EXCEPT !.results = (layout :> r) @@ @]
    /\ UNCHANGED <<idle_vars, unit>>

NextLayout == \E layout \in Layouts : ProcessLayout(layout)

SpecLayout == InitLayout /\ [][NextLayout]_vars

(***************************************************************************)
(* The flatten functions on their own.  The JSON documents tried are put   *)
(* together from what each member can be: absent, null, or an object of    *)
(* one of a few shapes; each flatten function is applied to the document.  *)
(***************************************************************************)
Absent == [t |-> "absent"]

\* The one-key dict {name: value}, or the empty dict when the member is absent.
Member(name, value) == IF value = Absent THEN <<>> ELSE (name :> value)

Item == JObj([id |-> JStr("a-1")])

HeadChoices == {<<>>, [id |-> JStr("D-1"), type |-> JStr("comments")]}
LinksChoices == {Absent, JNull, JObj(<<>>), JObj([self |-> JStr("https://api/D-1")])}
AttributeChoices ==
    {Absent,
     JNull,
     JObj([title |-> JStr("T"), withdrawn |-> JNull]),
     JObj([title |-> JStr("T"), link |-> JStr("L")]),
     JObj([attachments_count |-> JStr("many"), attachment_count |-> JStr("many")])}
RelationshipChoices ==
    {Absent,
     JObj([attachments |-> JNull]),
     JObj([attachments |-> JObj([data |-> JNull])]),
     JObj([attachments |-> JObj([links |-> JObj(<<>>)])]),
     JObj([attachments |-> JObj([data |-> JList(<<>>)])]),
     JObj([attachments |-> JObj([data |-> JList(<<Item, Item>>)])]),
     JObj([attachments |-> JObj([data |-> JList(<<Item>>)]),
           notes |-> JObj([data |-> JList(<<Item, Item>>)])])}
IncludedChoices == {Absent, JNull, JList(<<>>), JList(<<Item, Item>>)}

FlattenDoc(head, links, attributes, relationships, included) ==
    JObj(Member("data", JObj(head @@ Member("links", links)
                                  @@ Member("attributes", attributes)
                                  @@ Member("relationships", relationships)))
         @@ Member("included", included))

FlattenDocs ==
    {FlattenDoc(head, links, attributes, relationships, included) :
        head \in HeadChoices, links \in LinksChoices, attributes \in AttributeChoices,
        relationships \in RelationshipChoices, included \in IncludedChoices}
    \cup {JList(<<JNull>>), JObj([data |-> JNull]), JObj([meta |-> JStr("m")])}

InitFlatten ==
    /\ \E doc \in FlattenDocs : unit = [phase |-> "flatten", doc |-> doc, rows |-> <<>>]
    /\ lay = NoLayout
    /\ Idle("flatten")

\* flatten_docket_data, flatten_document_data or flatten_comment_data on the document
Flatten(table) ==
    /\ unit.phase = "flatten"
    /\ table \notin DOMAIN unit.rows
    /\ unit' = [unit EXCEPT !.rows = (table :> flatten(table, unit.doc)) @@ @]
    /\ UNCHANGED <<idle_vars, lay>>

NextFlatten == \E i \in DOMAIN TableNames : Flatten(TableNames[i])

SpecFlatten == InitFlatten /\ [][NextFlatten]_vars

(***************************************************************************)
(* The agency derivations and the docket filter on their own: a docket     *)
(* identifier, an --agency value and a --docket-pattern value are drawn,   *)
(* and each function is applied to them.                                   *)
(***************************************************************************)
FilterNames ==
    {"DEA-2016-0015", "ACF/ACF-2024-0005", "noseparator", "CMS-2025-0020", "CMS-2024-0001",
     "FAA-1", "faa-1", "EPA-HQ-1", "-1", "a/b-c"}
FilterAgencies == {"", "FAA", "faa", "Faa", "CMS", "dea", "UNKNOWN", "unknown"}
FilterPatterns == {"", "CMS-2025-*", "FAA-?", "*", "*-1", "faa-1"}
FilterRoots == {"/data/raw-data/AGY", "s3://bucket/data/raw-data/AGY"}

InitFilter ==
    /\ \E name \in FilterNames, agency \in FilterAgencies, pattern \in FilterPatterns,
          root \in FilterRoots :
         unit = [phase |-> "filter", name |-> name, agency |-> agency, pattern |-> pattern,
                 docket_path |-> root \o "/" \o name, got |-> <<>>]
    /\ lay = NoLayout
    /\ Idle("filter")

\* process_docket's derivation of the agency, on the identifier
DocketAgency ==
    /\ unit.phase = "filter"
    /\ "docket_agency" \notin DOMAIN unit.got
    /\ unit' = [unit EXCEPT !.got = ("docket_agency" :> docket_agency(unit.name)) @@ @]
    /\ UNCHANGED <<idle_vars, lay>>

\* _should_process_docket's derivation of the agency, on the identifier
FilterAgency ==
    /\ unit.phase = "filter"
    /\ "filter_agency" \notin DOMAIN unit.got
    /\ unit' = [unit EXCEPT !.got = ("filter_agency" :> filter_agency(unit.name)) @@ @]
    /\ UNCHANGED <<idle_vars, lay>>

\* add_filters(agency, docket_pattern), then _should_process_docket(docket_path)
ShouldProcess ==
    /\ unit.phase = "filter"
    /\ "accepted" \notin DOMAIN unit.got
    /\ unit' = [unit EXCEPT !.got =
                  ("accepted" :> _should_process_docket(
                                     add_filters(conv, unit.agency, unit.pattern),
                                     unit.docket_path)) @@ @]
    /\ UNCHANGED <<idle_vars, lay>>

NextFilter == DocketAgency \/ FilterAgency \/ ShouldProcess

SpecFilter == InitFilter /\ [][NextFilter]_vars

(***************************************************************************)
(* Layout resolution per source kind.  A docket directory is put together  *)
(* from where each kind is placed: the documents and the comments each in  *)
(* a set of variants, the docket-info files at some of the four candidate  *)
(* paths of the base process_docket reads (raw-data when it exists, else   *)
(* the docket directory).  A file's id names the place it lies at.         *)
(***************************************************************************)
Variants == <<"raw_flat", "raw_text", "direct_flat", "direct_text">>

\* The docket-info candidates: c1 docket/<id>.json, c2 docket.json,
\* c3 <id>.json, c4 text-<id>/docket/<id>.json; ok holds a record, garbage
\* does not parse.
Candidates(ok, garbage) == [c \in ok \cup garbage |-> IF c \in garbage THEN "garbage" ELSE "ok"]

InfoPlacements ==
    {Candidates({}, {}), Candidates({"c1"}, {}), Candidates({"c2"}, {}),
     Candidates({"c3"}, {}), Candidates({"c4"}, {}), Candidates({"c2"}, {"c1"}),
     Candidates({"c3"}, {"c2"}), Candidates({"c4"}, {"c3"}), Candidates({"c4"}, {"c1"})}
DocumentPlacements ==
    {{}, {"raw_flat"}, {"raw_text"}, {"direct_flat"}, {"direct_text"},
     {"raw_flat", "raw_text"}, {"raw_text", "direct_flat"}, {"direct_flat", "direct_text"},
     {"raw_flat", "direct_text"}}
CommentPlacements == {{}, {"raw_flat"}, {"raw_text"}, {"direct_flat"}, {"direct_text"}}

\* One file of a table directory, its id the place it lies at.
PlacedTable(dir, table, place) ==
    <<Dir(dir \o "/" \o table),
      File(dir \o "/" \o table \o "/" \o place \o ".json", SampleDoc(place))>>

PlacedInfo(p, c, what) == IF what = "ok" THEN File(p, SampleDoc(c)) ELSE Garbage(p)

\* What lies under one base (raw-data or the docket directory): `flat` and
\* `text` name the variants of this base, info the docket-info files in it.
BaseTree(base, id, flat, text, info, documents, comments) ==
    LET sub == base \o "/text-" \o id
    IN  (IF "c2" \in DOMAIN info
         THEN <<PlacedInfo(base \o "/docket.json", "c2", info["c2"])>> ELSE <<>>)
        \o (IF "c3" \in DOMAIN info
            THEN <<PlacedInfo(base \o "/" \o id \o ".json", "c3", info["c3"])>> ELSE <<>>)
        \o (IF "c1" \in DOMAIN info
            THEN <<Dir(base \o "/docket"),
                   PlacedInfo(base \o "/docket/" \o id \o ".json", "c1", info["c1"])>>
            ELSE <<>>)
        \o (IF flat \in documents THEN PlacedTable(base, "documents", flat) ELSE <<>>)
        \o (IF flat \in comments THEN PlacedTable(base, "comments", flat) ELSE <<>>)
        \o (IF "c4" \in DOMAIN info \/ text \in documents \/ text \in comments
            THEN <<Dir(sub)>> ELSE <<>>)
        \o (IF "c4" \in DOMAIN info
            THEN <<Dir(sub \o "/docket"),
                   PlacedInfo(sub \o "/docket/" \o id \o ".json", "c4", info["c4"])>>
            ELSE <<>>)
        \o (IF text \in documents THEN PlacedTable(sub, "documents", text) ELSE <<>>)
        \o (IF text \in comments THEN PlacedTable(sub, "comments", text) ELSE <<>>)

\* raw-data exists when it is there empty (raw_dir) or something is placed in it.
HasRaw(raw_dir, documents, comments) ==
    raw_dir \/ (documents \cup comments) \cap {"raw_flat", "raw_text"} # {}

ResolveTree(docket_path, raw_dir, info, documents, comments) ==
    LET id == get_name(docket_path)
        raw == HasRaw(raw_dir, documents, comments)
        none == Candidates({}, {})
    IN  <<Dir(docket_path)>>
        \o (IF raw
            THEN <<Dir(docket_path \o "/raw-data")>>
                 \o BaseTree(docket_path \o "/raw-data", id, "raw_flat", "raw_text",
                             info, documents, comments)
            ELSE <<>>)
        \o BaseTree(docket_path, id, "direct_flat", "direct_text",
                    IF raw THEN none ELSE info, documents, comments)

InitResolve ==
    /\ \E docket_path \in DocketRoots, raw_dir \in BOOLEAN, info \in InfoPlacements,
          documents \in DocumentPlacements, comments \in CommentPlacements :
         unit = [phase |-> "resolve", docket_path |-> docket_path, raw_dir |-> raw_dir,
                 info |-> info, documents |-> documents, comments |-> comments,
                 got |-> <<>>]
    /\ lay = NoLayout
    /\ Idle("resolve")

\* process_docket on the docket directory
Resolve ==
    /\ unit.phase = "resolve"
    /\ "result" \notin DOMAIN unit.got
    /\ \E fs \in {ResolveTree(unit.docket_path, unit.raw_dir, unit.info, unit.documents,
                               unit.comments)} :
         \E r \in {process_docket(fs, unit.docket_path)} :
            unit' = [unit EXCEPT !.got = ("result" :> r) @@ @]
    /\ UNCHANGED <<idle_vars, lay>>

NextResolve == Resolve

SpecResolve == InitResolve /\ [][NextResolve]_vars

(***************************************************************************)
(* The location functions on their own: a location and path segments are   *)
(* drawn, and join_paths, get_parent_path and get_name are applied.        *)
(***************************************************************************)
PathBases ==
    {"/data", "/data/raw-data/FAA", "/", "", "data", "s3:/x",
     "s3://bucket", "s3://bucket/", "s3://bucket/data", "s3://bucket/data/raw-data/",
     "s3://", "s3:///"}
PathParts ==
    {<<>>, <<"raw-data">>, <<"FAA", "FAA-1">>, <<"/abs">>, <<"">>, <<"s3://other/x">>,
     <<"text-FAA-1/", "docket">>}

InitPath ==
    /\ \E base \in PathBases, parts \in PathParts :
         unit = [phase |-> "path", base |-> base, parts |-> parts, got |-> <<>>]
    /\ lay = NoLayout
    /\ Idle("path")

\* join_paths(base, *parts)
JoinPaths ==
    /\ unit.phase = "path"
    /\ "join" \notin DOMAIN unit.got
    /\ unit' = [unit EXCEPT !.got = ("join" :> join_paths(unit.base, unit.parts)) @@ @]
    /\ UNCHANGED <<idle_vars, lay>>

\* PathHandler.get_parent_path(base)
ParentPath ==
    /\ unit.phase = "path"
    /\ "parent" \notin DOMAIN unit.got
    /\ unit' = [unit EXCEPT !.got = ("parent" :> get_parent_path(unit.base)) @@ @]
    /\ UNCHANGED <<idle_vars, lay>>

\* join_paths(get_parent_path(base), get_name(base)): the location named again
\* from its parent and its name
NamePath ==
    /\ unit.phase = "path"
    /\ "named" \notin DOMAIN unit.got
    /\ unit' = [unit EXCEPT !.got =
                  ("named" :> join_paths(get_parent_path(unit.base), <<get_name(unit.base)>>))
                  @@ @]
    /\ UNCHANGED <<idle_vars, lay>>

NextPath == JoinPaths \/ ParentPath \/ NamePath

SpecPath == InitPath /\ [][NextPath]_vars

(***************************************************************************)
(* Discovery.  Runs of main() on both backends, with and without a docket  *)
(* pattern, over data directories of the raw-data structure, of the direct *)
(* structure (docket directories right under the data directory) and with  *)
(* an agency directory that may not be listed.                             *)
(***************************************************************************)
DiscoverConfigs ==
    {Config("/data", "/out", "", ""),
     Config("/data", "/out", "", "FAA-*"),
     Config("s3://bucket/data", "/out", "", ""),
     Config("s3://bucket/data", "/out", "", "FAA-*"),
     Config("s3://bucket/data", "/out", "", "FAA-1")}

\* A directory whose listing raises PermissionError.
DeniedDir(p) == Entry(p, "dir", "denied", NoBody)

\* <root>/<docket> directories without <root>/raw-data: FAA-1 holds docket/,
\* EPA-1 holds raw-data/, tmp holds neither.
DirectCorpus(root) ==
    <<Dir(root)>>
    \o DocketTree(root \o "/FAA-1", "FAA-1", "good")
    \o <<Dir(root \o "/EPA-1"), Dir(root \o "/EPA-1/raw-data"),
         Dir(root \o "/EPA-1/raw-data/comments"),
         File(root \o "/EPA-1/raw-data/comments/EPA-1-0003.json", SampleDoc("EPA-1-0003")),
         Dir(root \o "/tmp")>>

\* The raw-data structure with the FAA directory closed to listing.
ClosedCorpus(root) ==
    <<Dir(root), Dir(root \o "/raw-data"), DeniedDir(root \o "/raw-data/FAA")>>
    \o DocketTree(root \o "/raw-data/FAA/FAA-1", "FAA-1", "good")
    \o <<Dir(root \o "/raw-data/EPA")>>
    \o DocketTree(root \o "/raw-data/EPA/EPA-1", "EPA-1", "comments")

DiscoverCorpora(root) ==
    {Corpus(root, name, kind) :
        name \in {<<"FAA-1", "nosep", "EPA-1">>, <<"FAA-1", "FAA-2", "FAA-1">>},
        kind \in {<<"good", "comments", "good">>, <<"denied", "good", "comments">>,
                  <<"empty", "good", "bad">>}}
    \cup {DirectCorpus(root), ClosedCorpus(root)}

InitDiscover ==
    /\ \E cfg \in DiscoverConfigs :
         /\ conv = add_filters(IcebergConverter(cfg.data_path, cfg.output_path),
                               cfg.agency, cfg.docket_pattern)
         /\ src \in DiscoverCorpora(cfg.data_path)
         /\ hist = [argv |-> cfg, preflight_failed |-> FALSE, fatal_seen |-> FALSE,
                    after_fatal |-> 0, interrupted |-> FALSE, uncaught |-> FALSE,
                    attempted |-> 0]
    /\ stats = [dockets_processed |-> 0, dockets_skipped |-> 0, errors |-> 0]
    /\ out = <<>>
    /\ out_dirs = {}
    /\ pc = "main"
    /\ agency_list = <<>>
    /\ ai = 0
    /\ docket_dirs = <<>>
    /\ di = 0
    /\ cur = NoDocket
    /\ exit_code = -1
    /\ faults = 0
    /\ log = <<>>
    /\ lay = NoLayout
    /\ unit = NoUnit

SpecDiscover == InitDiscover /\ [][Next]_vars

(***************************************************************************)
(* Properties of the run.                                                  *)
(***************************************************************************)
NoStats == [dockets_processed |-> 0, dockets_skipped |-> 0, errors |-> 0]

\* C1: once a docket has raised a permission or IO error (from a read or a
\* write) no later docket is started, in the same agency or in a later one, and
\* the files written before it stay in place.
C1_FatalErrorAborts ==
    /\ hist.after_fatal = 0
    /\ \A i \in DOMAIN log :
         log[i].outcome = "fatal" => log[i].files_after \subseteq DOMAIN out

\* C2: the step in which a docket fails with an error that is no permission/IO
\* error adds exactly one to errors, leaves dockets_processed and
\* dockets_skipped alone, and leaves the run at the next docket in discovery
\* order: the next entry of the agency's listing, or the next agency after a
\* probed docket.
C2_ErrorCountedRunGoesOn ==
    [][(Len(log') = Len(log) + 1 /\ log'[Len(log')].outcome = "error") =>
          /\ stats' = [stats EXCEPT !.errors = @ + 1]
          /\ exit_code' = -1
          /\ agency_list' = agency_list
          /\ IF pc = "dockets"
             THEN pc' = "dockets" /\ docket_dirs' = docket_dirs /\ di' = di + 1 /\ ai' = ai
             ELSE pc' = "agencies" /\ ai' = ai + 1]_vars

\* C2 happens: a docket failed with a non-fatal error and a later docket was
\* dealt with after it.
C2_Witness ==
    \E i \in DOMAIN log : log[i].outcome = "error" /\ i < Len(log)

\* C3: when the permission pre-flight fails the run ends with failure before
\* any docket work: nothing is discovered or read, no table file is written and
\* the three counters are 0.
C3_PreflightFailureStops ==
    hist.preflight_failed =>
        /\ pc = "exit"
        /\ exit_code = 1
        /\ stats = NoStats
        /\ agency_list = <<>>
        /\ docket_dirs = <<>>
        /\ log = <<>>
        /\ cur = NoDocket
        /\ DOMAIN out = {}

\* C3 happens: the pre-flight failed on a corpus that holds dockets.
C3_Witness ==
    /\ hist.preflight_failed
    /\ \E i \in DOMAIN src : src[i].kind = "file"

\* C4: a docket whose three tables are all empty is counted in
\* dockets_skipped only, and no directory and no file of the output is made
\* for it.
C4_EmptyDocketSkipped ==
    \A i \in DOMAIN log :
        (log[i].outcome \in {"processed", "skipped"} /\ log[i].tables = {}) =>
            /\ log[i].outcome = "skipped"
            /\ log[i].after = [log[i].before EXCEPT !.dockets_skipped = @ + 1]
            /\ \A d \in out_dirs : d.by # log[i].path
            /\ \A p \in DOMAIN out : log[i].path \notin out[p].writers

\* C4 happens: a docket without any data went through the run while other
\* dockets left output.
C4_Witness ==
    /\ \E i \in DOMAIN log : log[i].outcome = "skipped" /\ log[i].tables = {}
    /\ DOMAIN out # {}

\* C5: from an empty output, a docket converted without a write failure leaves
\* <table>.parquet in its output directory for exactly its non-empty tables,
\* and counts 1 in dockets_processed when it has a non-empty table.
C5_FilesOfNonEmptyTables ==
    \A i \in DOMAIN log :
        (log[i].outcome \in {"processed", "skipped"} /\ log[i].fresh /\ ~log[i].write_failed) =>
            /\ log[i].files_after = {log[i].dir \o "/" \o t \o ".parquet" : t \in log[i].tables}
            /\ log[i].tables # {} =>
                   /\ log[i].outcome = "processed"
                   /\ log[i].after = [log[i].before EXCEPT !.dockets_processed = @ + 1]

\* C5 happens: a docket with a docket-info file, two documents and no comment
\* was converted into an empty output.
C5_Witness ==
    \E i \in DOMAIN log :
        /\ log[i].outcome = "processed"
        /\ log[i].fresh
        /\ ~log[i].write_failed
        /\ log[i].tables = {"docket_info", "documents"}
        /\ log[i].after.dockets_processed = 1

\* C6: after a cancellation every table file of the output is complete (none
\* is truncated) and the output sets of the dockets completed before it are
\* all there.
C6_CancelLeavesWholeFiles ==
    hist.interrupted =>
        /\ \A p \in DOMAIN out : out[p].state = "complete"
        /\ \A i \in DOMAIN log :
             log[i].outcome = "processed" => log[i].files_after \subseteq DOMAIN out

\* C7: an uncancelled run ends with a non-zero status exactly when the
\* pre-flight failed or a docket raised a fatal (permission/IO) error.
C7_ExitStatus ==
    (pc = "exit" /\ ~hist.interrupted) =>
        (exit_code # 0 <=> (hist.preflight_failed \/ hist.fatal_seen))

C9_NoCollision ==
    /\ \A p \in DOMAIN out : Cardinality(out[p].writers) <= 1
    /\ \A i, j \in DOMAIN log :
         (i # j /\ log[i].outcome = "processed" /\ log[j].outcome = "processed")
             => log[i].dir # log[j].dir

\* The rows of a table as a set.
RowSet(rows) == {rows[i] : i \in DOMAIN rows}

\* C10: whatever the layout the content is placed under, process_docket ends
\* the same way and returns the same docket_info row, the same set of document
\* rows and the same set of comment rows.
C10_VariantTransparency ==
    lay.phase = "compare" =>
        \A v, w \in DOMAIN lay.results :
            /\ lay.results[v].exc = lay.results[w].exc
            /\ lay.results[v].result.docket_info = lay.results[w].result.docket_info
            /\ RowSet(lay.results[v].result.documents) = RowSet(lay.results[w].result.documents)
            /\ RowSet(lay.results[v].result.comments) = RowSet(lay.results[w].result.comments)

\* C10 happens: a content with a docket-info file, two documents and a comment
\* was read under all four layouts.
C10_Witness ==
    /\ lay.phase = "compare"
    /\ DOMAIN lay.results = Layouts
    /\ \A v \in Layouts :
         /\ lay.results[v].result.docket_info # JNull
         /\ Len(lay.results[v].result.documents) = 2
         /\ Len(lay.results[v].result.comments) = 1

\* The files of a content, and how many of a table's files are of given kinds.
ContentFiles(content) == <<content.info>> \o content.documents \o content.comments
CountOf(whats, kinds) == Len(SelectSeq(whats, LAMBDA w : w \in kinds))

\* C11: a docket that has well-formed files and some files that do not parse or
\* hold JSON of an unexpected structure (and no unreadable file) is converted:
\* process_docket raises nothing, so the docket is not counted as an error, and
\* it returns a row for the well-formed docket-info file and for every
\* well-formed document and comment file.
C11_MalformedFileKeepsDocket ==
    lay.phase = "compare" =>
        \A v \in DOMAIN lay.results :
            LET files == ContentFiles(lay.content)
                r == lay.results[v]
            IN  (/\ \A i \in DOMAIN files : files[i] # "denied"
                 /\ \E i \in DOMAIN files : files[i] = "ok"
                 /\ \E i \in DOMAIN files : files[i] \in {"garbage", "list"})
                => /\ r.exc = "none"
                   /\ lay.content.info = "ok" => r.result.docket_info # JNull
                   /\ Len(r.result.documents) >= CountOf(lay.content.documents, {"ok"})
                   /\ Len(r.result.comments) >= CountOf(lay.content.comments, {"ok"})

\* C12: when process_docket returns, the documents table has one row for each
\* document file that parses and has a `data` member, and none for a file that
\* does not parse or whose JSON has no `data` member.
C12_NoDataNoRow ==
    lay.phase = "compare" =>
        \A v \in DOMAIN lay.results :
            lay.results[v].exc = "none"
            => Len(lay.results[v].result.documents)
                 = Len(lay.content.documents)
                   - CountOf(lay.content.documents, {"garbage", "nodata"})

\* The member k of a JSON value, null when the value is no object or has no k.
Sub(j, k) == IF j.t = "obj" /\ k \in DOMAIN j.v THEN j.v[k] ELSE JNull

\* The rows the flatten functions returned for the document in hand.
Flattened == {table \in DOMAIN unit.rows : ~unit.rows[table].raised}

\* C13: a row returned by any of the three flatten functions has the columns
\* id, type and link, holding data.id, data.type and data.links.self of the
\* document, null where the member is missing.
C13_HeadColumns ==
    unit.phase = "flatten" =>
        \A table \in Flattened :
            LET row == unit.rows[table].row
                data == Sub(unit.doc, "data")
            IN  /\ {"id", "type", "link"} \subseteq DOMAIN row
                /\ row["id"] = Sub(data, "id")
                /\ row["type"] = Sub(data, "type")
                /\ row["link"] = Sub(Sub(data, "links"), "self")

\* C14: in a row returned by any of the three flatten functions, an attribute
\* of data.attributes has a column of its own name holding its own value
\* exactly when its value is not null.
C14_AttributeColumns ==
    unit.phase = "flatten" =>
        \A table \in Flattened :
            LET row == unit.rows[table].row
                attributes == Sub(Sub(unit.doc, "data"), "attributes")
            IN  attributes.t = "obj" =>
                    \A k \in DOMAIN attributes.v :
                        (k \in DOMAIN row /\ row[k] = attributes.v[k])
                        <=> attributes.v[k] # JNull

\* C15: in a row returned by any of the three flatten functions, every
\* relationship whose value has a `data` list of n items has the column
\* <relationship>_count holding n.
C15_RelationshipCounts ==
    unit.phase = "flatten" =>
        \A table \in Flattened :
            LET row == unit.rows[table].row
                relationships == Sub(Sub(unit.doc, "data"), "relationships")
            IN  relationships.t = "obj" =>
                    \A r \in DOMAIN relationships.v :
                        Sub(relationships.v[r], "data").t = "list"
                        => /\ (r \o "_count") \in DOMAIN row
                           /\ row[r \o "_count"]
                                = JNum(Len(Sub(relationships.v[r], "data").v))

\* The number of items of a JSON list, 0 for a value that is no list.
ListLen(j) == IF j.t = "list" THEN Len(j.v) ELSE 0

\* C16: a row returned by flatten_comment_data has the four columns
\* has_attachments, attachment_count, has_included_attachments and
\* included_attachment_count; attachment_count is the length of
\* data.relationships.attachments.data (0 when absent), included_attachment_count
\* the length of the top-level included list (0 when absent or empty), and each
\* has_ column says whether its count is positive.
C16_CommentAttachmentColumns ==
    (unit.phase = "flatten" /\ "comments" \in Flattened) =>
        LET row == unit.rows["comments"].row
            adata == Sub(Sub(Sub(Sub(unit.doc, "data"), "relationships"), "attachments"), "data")
        IN  /\ {"has_attachments", "attachment_count", "has_included_attachments",
                 "included_attachment_count"} \subseteq DOMAIN row
            /\ row["attachment_count"] = JNum(ListLen(adata))
            /\ row["has_attachments"] = JBool(ListLen(adata) > 0)
            /\ row["included_attachment_count"] = JNum(ListLen(Sub(unit.doc, "included")))
            /\ row["has_included_attachments"] = JBool(ListLen(Sub(unit.doc, "included")) > 0)

\* C16 happens: a comment with two attachments and two included objects was
\* flattened, and so was one with neither.
C16_Witness ==
    /\ unit.phase = "flatten"
    /\ "comments" \in Flattened
    /\ unit.rows["comments"].row["attachment_count"] = JNum(2)
    /\ unit.rows["comments"].row["included_attachment_count"] = JNum(2)

\* The characters of s before the first c (s has one), c in s, and what
\* follows the last '/' of s.
Has(s, c) == \E i \in 1..Len(s) : SubSeq(s, i, i) = c
Before(s, c) ==
    SubSeq(s, 1, (CHOOSE i \in 1..Len(s) :
                     SubSeq(s, i, i) = c /\ \A j \in 1..(i - 1) : SubSeq(s, j, j) # c) - 1)
Leaf(s) ==
    IF Has(s, "/")
    THEN SubSeq(s, 1 + (CHOOSE i \in 1..Len(s) :
                           SubSeq(s, i, i) = "/"
                           /\ \A j \in (i + 1)..Len(s) : SubSeq(s, j, j) # "/"), Len(s))
    ELSE s

\* The agency of an identifier: what precedes its first '/', else what
\* precedes its first '-', else UNKNOWN.
AgencyOf(s) ==
    IF Has(s, "/") THEN Before(s, "/") ELSE IF Has(s, "-") THEN Before(s, "-") ELSE "UNKNOWN"

C18_AgencyCaseInsensitive ==
    (/\ unit.phase = "filter"
     /\ unit.agency # ""
     /\ unit.pattern = ""
     /\ "accepted" \in DOMAIN unit.got)
    => (unit.got["accepted"] <=> upper(AgencyOf(Leaf(unit.name))) = upper(unit.agency))

\* Shell-glob matching with '*' and '?', read from the end of the name.
RECURSIVE Glob(_, _)
Glob(name, pat) ==
    LET n == Len(name)
        m == Len(pat)
    IN  IF m = 0 THEN n = 0
        ELSE IF SubSeq(pat, m, m) = "*"
             THEN \E k \in 0..n : Glob(SubSeq(name, 1, k), SubSeq(pat, 1, m - 1))
        ELSE /\ n > 0
             /\ SubSeq(pat, m, m) \in {"?", SubSeq(name, n, n)}
             /\ Glob(SubSeq(name, 1, n - 1), SubSeq(pat, 1, m - 1))

\* C19: _should_process_docket accepts a docket exactly when (no --agency is
\* given or the agency of its name matches it, letter case aside) and (no
\* --docket-pattern is given or its leaf name matches the pattern as a shell
\* glob); without filters every docket is accepted; CMS-2025-* accepts
\* CMS-2025-0020 and rejects CMS-2024-0001.
C19_ShouldProcess ==
    (unit.phase = "filter" /\ "accepted" \in DOMAIN unit.got) =>
        /\ unit.got["accepted"]
              <=> /\ unit.agency = ""
                     \/ upper(AgencyOf(Leaf(unit.name))) = upper(unit.agency)
                  /\ unit.pattern = "" \/ Glob(Leaf(unit.name), unit.pattern)
        /\ (unit.agency = "" /\ unit.pattern = "") => unit.got["accepted"]
        /\ (unit.agency = "" /\ unit.pattern = "CMS-2025-*" /\ unit.name = "CMS-2025-0020")
              => unit.got["accepted"]
        /\ (unit.pattern = "CMS-2025-*" /\ unit.name = "CMS-2024-0001")
              => ~unit.got["accepted"]

\* What the output storage holds: for each file its table, its rows and
\* whether it is whole.
Files(o) == [p \in DOMAIN o |-> [table |-> o[p].table, rows |-> o[p].rows, state |-> o[p].state]]

\* C20: when two runs with the same command line on the same corpus have both
\* ended by themselves, the output storage holds after the second run the
\* files it held after the first, each with the same rows: nothing was added
\* to a file and no file was added.
C20_RerunIdempotent ==
    (unit.phase = "rerun" /\ unit.run = 2 /\ RunClean) => Files(out) = Files(unit.first)

\* C20 happens: the second run has ended after converting a docket again, and
\* the output storage holds table files.
C20_Witness ==
    /\ unit.phase = "rerun"
    /\ unit.run = 2
    /\ RunClean
    /\ DOMAIN out # {}
    /\ \E i \in DOMAIN log : log[i].outcome = "processed"

\* The backend a location string is on, read off its first five characters.
OnS3(loc) == Len(loc) >= 5 /\ SubSeq(loc, 1, 5) = "s3://"

\* An s3:// location that names a bucket: something other than '/' follows
\* the prefix.
HasBucket(loc) == OnS3(loc) /\ Len(loc) >= 6 /\ SubSeq(loc, 6, 6) # "/"

Sources(rows) == {rows[i]["id"].v : i \in DOMAIN rows}

\* The first of the four variants that is among `places`.
FirstOf(places) ==
    Variants[CHOOSE i \in DOMAIN Variants :
                /\ Variants[i] \in places
                /\ \A j \in 1..(i - 1) : Variants[j] \notin places]

\* C22: the documents and the comments process_docket returns are those of the
\* first variant, in the order raw-data flat, raw-data text-*, direct flat,
\* direct text-*, that holds a source of the kind; none are returned only when
\* no variant holds one.
C22_FirstVariantWins ==
    (unit.phase = "resolve" /\ "result" \in DOMAIN unit.got) =>
        \A kind \in {"documents", "comments"} :
            Sources(unit.got["result"].result[kind])
              = IF unit[kind] = {} THEN {} ELSE {FirstOf(unit[kind])}

\* C23: when one of the docket-info candidates of the base process_docket
\* reads holds a loadable record, process_docket returns a docket_info row,
\* also when a candidate tried before it is there and does not load.
C23_DocketInfoCandidates ==
    (unit.phase = "resolve" /\ "result" \in DOMAIN unit.got) =>
        ((\E c \in DOMAIN unit.info : unit.info[c] = "ok")
         => unit.got["result"].result.docket_info # JNull)

\* The two variants of the base process_docket reads.
Applicable ==
    IF HasRaw(unit.raw_dir, unit.documents, unit.comments)
    THEN {"raw_flat", "raw_text"} ELSE {"direct_flat", "direct_text"}

\* C24: within the base process_docket reads, each kind is found wherever it
\* lies, flat or under text-*, whatever the places of the other kinds:
\* process_docket raises nothing, returns documents (comments) exactly when
\* the documents (comments) lie at one of the two places, and returns a
\* docket_info row when a docket-info file lies at one of its candidate paths.
C24_KindsIndependent ==
    (unit.phase = "resolve" /\ "result" \in DOMAIN unit.got) =>
        /\ unit.got["result"].exc = "none"
        /\ \A kind \in {"documents", "comments"} :
              unit.got["result"].result[kind] # <<>> <=> unit[kind] \cap Applicable # {}
        /\ (DOMAIN unit.info # {} /\ \A c \in DOMAIN unit.info : unit.info[c] = "ok")
              => unit.got["result"].result.docket_info # JNull

\* C24 happens: a docket with its docket-info file in raw-data/docket, its
\* documents under raw-data/text-* and its comments in raw-data/comments was
\* read, and all three were found.
C24_Witness ==
    /\ unit.phase = "resolve"
    /\ "result" \in DOMAIN unit.got
    /\ DOMAIN unit.info = {"c1"}
    /\ unit.documents = {"raw_text"}
    /\ unit.comments = {"raw_flat"}
    /\ unit.got["result"].exc = "none"
    /\ unit.got["result"].result.docket_info # JNull
    /\ Sources(unit.got["result"].result.documents) = {"raw_text"}
    /\ Sources(unit.got["result"].result.comments) = {"raw_flat"}

\* The run ended by itself after a passed pre-flight.
Ended == pc = "exit" /\ ~hist.preflight_failed /\ ~hist.interrupted

\* The docket directories of the source under the agencies of the object-store
\* catalog: <data_path>/raw-data/<agency>/<docket>.
S3Dockets ==
    {src[i].path : i \in {j \in DOMAIN src :
        /\ src[j].kind = "dir"
        /\ \E a \in DOMAIN known_agencies :
              src[j].parent = conv.data_path \o "/raw-data/" \o known_agencies[a]}}

Wildcard(pat) == Has(pat, "*") \/ Has(pat, "?") \/ Has(pat, "[")

Attempted == {log[i].path : i \in DOMAIN log}

\* C25: on the object-store backend a docket pattern that is an exact docket
\* id makes discovery probe <agency>/<id> only, without listing the agency; a
\* pattern with wildcards makes discovery process every docket of the agency
\* whose name matches the pattern.
C25_PatternDiscovery ==
    (conv.is_s3_source /\ conv.docket_pattern_filter # "") =>
        IF Wildcard(conv.docket_pattern_filter)
        THEN (Ended /\ ~hist.fatal_seen) =>
                \A d \in S3Dockets :
                    fnmatch(Leaf(d), conv.docket_pattern_filter) => d \in Attempted
        ELSE /\ docket_dirs = <<>>
             /\ \A d \in Attempted : Leaf(d) = conv.docket_pattern_filter

\* The directories of the source right under the directory `parent`.
DirsUnder(parent) ==
    {src[i].path : i \in {j \in DOMAIN src : src[j].kind = "dir" /\ src[j].parent = parent}}

\* The candidate dockets of a local data directory: <root>/raw-data/<agency>/
\* <docket> when <root>/raw-data exists, else the directories <root>/<docket>
\* that hold a raw-data or a docket child.
LocalCandidates ==
    IF path_exists(src, conv.data_path \o "/raw-data")
    THEN UNION {DirsUnder(a) : a \in DirsUnder(conv.data_path \o "/raw-data")}
    ELSE {d \in DirsUnder(conv.data_path) :
            path_exists(src, d \o "/raw-data") \/ path_exists(src, d \o "/docket")}

\* C26: a conversion run on a local data directory that ended by itself, no
\* permission or IO error raised, has processed every candidate docket that
\* passes the filters, under <root>/raw-data/<agency>/ when <root>/raw-data
\* exists and right under <root> when it does not.
C26_LocalDiscovery ==
    (~conv.is_s3_source /\ Ended /\ ~hist.fatal_seen) =>
        \A d \in LocalCandidates : _should_process_docket(conv, d) => d \in Attempted

\* The entries of the source that raise PermissionError when listed or opened.
Closed(kind) ==
    {src[i].path : i \in {j \in DOMAIN src : src[j].kind = kind /\ src[j].perm = "denied"}}

\* C27: on the local backend a permission error is never swallowed: a run that
\* ended by itself over an agency directory that may not be listed has raised
\* a fatal error, and a docket one of whose files may not be read is recorded
\* as a fatal error.
C27_PermissionErrorsPropagate ==
    (~conv.is_s3_source /\ Ended) =>
        /\ (Closed("dir") \cap DirsUnder(conv.data_path \o "/raw-data") # {}) =>
               hist.fatal_seen
        /\ \A i \in DOMAIN log :
               (\E f \in Closed("file") : startswith(f, log[i].path \o "/")) =>
                   log[i].outcome = "fatal"

\* The directory of the j-th agency of the loop.
AgencyDir(j) == join_paths(join_paths(conv.data_path, <<"raw-data">>), <<agency_list[j]>>)

\* The dockets discovery finds under the j-th agency, in the order it finds
\* them: the probed path, or the directories of the listing that pass the
\* filters; none when the agency is passed over.
Found(j) ==
    LET listed == [k \in DOMAIN list_directory(src, AgencyDir(j)) |->
                      join_paths(AgencyDir(j), <<list_directory(src, AgencyDir(j))[k]>>)]
        wanted == SelectSeq(listed, LAMBDA d : is_directory(src, d)
                                                /\ _should_process_docket(conv, d))
        probed == join_paths(AgencyDir(j), <<conv.docket_pattern_filter>>)
    IN  IF conv.is_s3_source
        THEN IF ~path_exists(src, AgencyDir(j)) THEN <<>>
             ELSE IF conv.docket_pattern_filter = "" THEN wanted
             ELSE IF is_directory(src, probed) /\ _should_process_docket(conv, probed)
                  THEN <<probed>> ELSE <<>>
        ELSE IF ~is_directory(src, AgencyDir(j))
                \/ (conv.agency_filter # "" /\ agency_list[j] # conv.agency_filter)
             THEN <<>> ELSE wanted

\* Every docket found under the j-th agency has been dealt with, up to the
\* one whose permission or IO error ended the agency's loop.
Settled(j) ==
    \A k \in DOMAIN Found(j) :
        \/ Found(j)[k] \in Attempted
        \/ \E e \in DOMAIN log, m \in 1..(k - 1) :
              log[e].path = Found(j)[m] /\ log[e].outcome = "fatal"

\* The table files of every docket counted as processed are in the output.
Written ==
    \A e \in DOMAIN log :
        log[e].outcome = "processed" =>
            \A t \in log[e].tables :
                parquet_path(log[e].dir, t) \in complete_files(out)

\* C28: dockets are processed as they are found.  Whenever discovery is about
\* to probe or list an agency, every docket found under the agencies before it
\* has been processed and its output written; and the dockets dealt with so
\* far all lie under the agencies discovery has come to, none under a later
\* one.
C28_ProcessedAsFound ==
    /\ pc = "agencies" =>
          /\ cur = NoDocket
          /\ Written
          /\ \A j \in 1..(ai - 1) : Settled(j)
    /\ pc \in {"agencies", "dockets", "save", "writing"} =>
          \A d \in Attempted \cup (IF cur = NoDocket THEN {} ELSE {cur.path}) :
              \E j \in 1..ai : j <= Len(agency_list) /\ get_parent_path(d) = AgencyDir(j)

\* C28 happens: the second agency is about to be listed or probed, it holds a
\* docket, and two dockets of the first have been processed and written.
C28_Witness ==
    /\ pc = "agencies"
    /\ ai \in 2..Len(agency_list)
    /\ Found(ai) # <<>>
    /\ Len(log) >= 2
    /\ \A e \in DOMAIN log : log[e].outcome = "processed"

Total(s) == s.dockets_processed + s.dockets_skipped + s.errors

\* No docket is inside _process_single_docket.
BetweenDockets == pc \in {"agencies", "dockets"} \/ (pc = "exit" /\ ~hist.interrupted)

\* C29: every call of _process_single_docket adds one to exactly one of
\* dockets_processed, dockets_skipped and errors, once: a step changes at most
\* one counter, by one and upwards, and at every point between dockets the sum
\* of the counters is the number of calls made so far.
C29_CountersPartition ==
    [][/\ stats'.dockets_processed >= stats.dockets_processed
       /\ stats'.dockets_skipped >= stats.dockets_skipped
       /\ stats'.errors >= stats.errors
       /\ Total(stats') - Total(stats) \in {0, 1}
       /\ BetweenDockets' => Total(stats') = hist'.attempted]_vars

\* C29 happens: between dockets, with one docket counted in each counter.
C29_Witness ==
    /\ BetweenDockets
    /\ stats.dockets_processed >= 1
    /\ stats.dockets_skipped >= 1
    /\ stats.errors >= 1
    /\ hist.attempted = 3

\* C30: a docket is counted in dockets_processed exactly when it has a
\* non-empty table and no table write reported failure.  After a write that
\* reported failure without raising, the remaining tables are still written and
\* the docket adds one to dockets_skipped and nothing to errors, with the files
\* of its other tables in the output.
C30_ProcessedIffAllWritten ==
    \A e \in DOMAIN log :
        log[e].outcome \in {"processed", "skipped"} =>
            /\ log[e].outcome = "processed" <=>
                   (log[e].tables # {} /\ ~log[e].write_failed)
            /\ log[e].write_failed =>
                   /\ log[e].after =
                          [log[e].before EXCEPT !.dockets_skipped = @ + 1]
                   /\ Cardinality({t \in log[e].tables :
                          /\ parquet_path(log[e].dir, t) \in log[e].files_after
                          /\ log[e].path \in out[parquet_path(log[e].dir, t)].writers})
                         >= Cardinality(log[e].tables) - MaxFaults

\* C30 happens: on the object-store target the write of one table of a docket
\* with two non-empty tables reported failure, the other table's file is in the
\* output, and the docket was counted as skipped.
C30_Witness ==
    \E e \in DOMAIN log :
        /\ conv.is_s3_target
        /\ log[e].outcome = "skipped"
        /\ log[e].write_failed
        /\ Cardinality(log[e].tables) = 2
        /\ \E t \in log[e].tables : parquet_path(log[e].dir, t) \in log[e].files_after

====
